---------------------------- MODULE Spec2Model ----------------------------
(***************************************************************************)
(* Model of the teleprompter content parser of cuecard-mobile              *)
(* (src/cuecard-mobile/src-tauri/src/teleprompter.rs), and of the tokens,  *)
(* login, logout and slide state of cuecard-app and cuecard-mobile         *)
(* (src/cuecard-app/src-tauri/src/lib.rs,                                  *)
(* src/cuecard-mobile/src-tauri/src/lib.rs).                               *)
(*                                                                         *)
(* A string is a sequence of characters; a character is a one-character    *)
(* TLA+ string when it is printable ASCII, LF, CR or TAB, and is written   *)
(* by its code point otherwise ("U+0661" is ARABIC-INDIC DIGIT ONE,        *)
(* "U+00A0" is NO-BREAK SPACE).  Offsets into a                            *)
(* string are 0-based and end-exclusive as in the Rust source, so the      *)
(* slice notes[a..b] is SubSeq(notes, a + 1, b).  Option<u32> is a         *)
(* sequence of length at most one: None is <<>>, Some(d) is <<d>>.         *)
(***************************************************************************)
EXTENDS Integers, Sequences, FiniteSets

VARIABLES
    notes,        \* the notes given to parse_teleprompter_content
    edits,        \* the number of pieces typed so far
    content,      \* the TeleprompterContent the command returned
    pc,           \* where the caller is
    raw_text,     \* the text given to format_notes_for_display
    formatted,    \* its result
    reformatted,  \* the result of formatting the result again
    call,         \* a call of calculate_scroll_speed with its result
    tasks,        \* the calls, requests and spawned tasks under way
    now,          \* chrono::Utc::now().timestamp()
    FIREBASE_TOKENS,          \* Option<FirebaseTokens>
    SLIDES_TOKENS,            \* Option<SlidesTokens>
    PENDING_OAUTH_SCOPE,      \* Option<String>
    store,                    \* the keys of the store file
    CURRENT_SLIDE,            \* Option<SlideData>
    SLIDE_NOTES,              \* HashMap<String, String>
    CURRENT_PRESENTATION_ID,  \* Option<String>
    emitted       \* the last slide-update event emitted to the frontend

\* The variables of the teleprompter functions.
teleVars == <<notes, edits, content, pc, raw_text, formatted, reformatted, call>>

\* The variables of the applications around them (cuecard-app/lib.rs and
\* cuecard-mobile/lib.rs).
appVars ==
    <<tasks, now, FIREBASE_TOKENS, SLIDES_TOKENS, PENDING_OAUTH_SCOPE, store,
      CURRENT_SLIDE, SLIDE_NOTES, CURRENT_PRESENTATION_ID, emitted>>

vars == <<teleVars, appVars>>

\* The application is not running.
AppIdle ==
    /\ tasks = <<>>
    /\ now = 0
    /\ FIREBASE_TOKENS = <<>>
    /\ SLIDES_TOKENS = <<>>
    /\ PENDING_OAUTH_SCOPE = <<>>
    /\ store = <<>>
    /\ CURRENT_SLIDE = <<>>
    /\ SLIDE_NOTES = <<>>
    /\ CURRENT_PRESENTATION_ID = <<>>
    /\ emitted = <<>>

----------------------------------------------------------------------------
(* Characters *)

\* char::is_whitespace and the regex class \s: both are the Unicode
\* White_Space property, which has these 25 characters.
WhiteSpace ==
    {"\t", "\n", "U+000B", "U+000C", "\r", " ", "U+0085", "U+00A0", "U+1680",
     "U+2000", "U+2001", "U+2002", "U+2003", "U+2004", "U+2005", "U+2006",
     "U+2007", "U+2008", "U+2009", "U+200A", "U+2028", "U+2029", "U+202F",
     "U+205F", "U+3000"}

AsciiDigit == {"0", "1", "2", "3", "4", "5", "6", "7", "8", "9"}

\* The decimal digits (general category Nd, Unicode 16.0) outside ASCII, which
\* the regex crate's Unicode-aware \d matches too.  Each row is one script's
\* digits zero to nine.
NonAsciiDigitRows ==
    {<<"U+0660", "U+0661", "U+0662", "U+0663", "U+0664",
       "U+0665", "U+0666", "U+0667", "U+0668", "U+0669">>,
     <<"U+06F0", "U+06F1", "U+06F2", "U+06F3", "U+06F4",
       "U+06F5", "U+06F6", "U+06F7", "U+06F8", "U+06F9">>,
     <<"U+07C0", "U+07C1", "U+07C2", "U+07C3", "U+07C4",
       "U+07C5", "U+07C6", "U+07C7", "U+07C8", "U+07C9">>,
     <<"U+0966", "U+0967", "U+0968", "U+0969", "U+096A",
       "U+096B", "U+096C", "U+096D", "U+096E", "U+096F">>,
     <<"U+09E6", "U+09E7", "U+09E8", "U+09E9", "U+09EA",
       "U+09EB", "U+09EC", "U+09ED", "U+09EE", "U+09EF">>,
     <<"U+0A66", "U+0A67", "U+0A68", "U+0A69", "U+0A6A",
       "U+0A6B", "U+0A6C", "U+0A6D", "U+0A6E", "U+0A6F">>,
     <<"U+0AE6", "U+0AE7", "U+0AE8", "U+0AE9", "U+0AEA",
       "U+0AEB", "U+0AEC", "U+0AED", "U+0AEE", "U+0AEF">>,
     <<"U+0B66", "U+0B67", "U+0B68", "U+0B69", "U+0B6A",
       "U+0B6B", "U+0B6C", "U+0B6D", "U+0B6E", "U+0B6F">>,
     <<"U+0BE6", "U+0BE7", "U+0BE8", "U+0BE9", "U+0BEA",
       "U+0BEB", "U+0BEC", "U+0BED", "U+0BEE", "U+0BEF">>,
     <<"U+0C66", "U+0C67", "U+0C68", "U+0C69", "U+0C6A",
       "U+0C6B", "U+0C6C", "U+0C6D", "U+0C6E", "U+0C6F">>,
     <<"U+0CE6", "U+0CE7", "U+0CE8", "U+0CE9", "U+0CEA",
       "U+0CEB", "U+0CEC", "U+0CED", "U+0CEE", "U+0CEF">>,
     <<"U+0D66", "U+0D67", "U+0D68", "U+0D69", "U+0D6A",
       "U+0D6B", "U+0D6C", "U+0D6D", "U+0D6E", "U+0D6F">>,
     <<"U+0DE6", "U+0DE7", "U+0DE8", "U+0DE9", "U+0DEA",
       "U+0DEB", "U+0DEC", "U+0DED", "U+0DEE", "U+0DEF">>,
     <<"U+0E50", "U+0E51", "U+0E52", "U+0E53", "U+0E54",
       "U+0E55", "U+0E56", "U+0E57", "U+0E58", "U+0E59">>,
     <<"U+0ED0", "U+0ED1", "U+0ED2", "U+0ED3", "U+0ED4",
       "U+0ED5", "U+0ED6", "U+0ED7", "U+0ED8", "U+0ED9">>,
     <<"U+0F20", "U+0F21", "U+0F22", "U+0F23", "U+0F24",
       "U+0F25", "U+0F26", "U+0F27", "U+0F28", "U+0F29">>,
     <<"U+1040", "U+1041", "U+1042", "U+1043", "U+1044",
       "U+1045", "U+1046", "U+1047", "U+1048", "U+1049">>,
     <<"U+1090", "U+1091", "U+1092", "U+1093", "U+1094",
       "U+1095", "U+1096", "U+1097", "U+1098", "U+1099">>,
     <<"U+17E0", "U+17E1", "U+17E2", "U+17E3", "U+17E4",
       "U+17E5", "U+17E6", "U+17E7", "U+17E8", "U+17E9">>,
     <<"U+1810", "U+1811", "U+1812", "U+1813", "U+1814",
       "U+1815", "U+1816", "U+1817", "U+1818", "U+1819">>,
     <<"U+1946", "U+1947", "U+1948", "U+1949", "U+194A",
       "U+194B", "U+194C", "U+194D", "U+194E", "U+194F">>,
     <<"U+19D0", "U+19D1", "U+19D2", "U+19D3", "U+19D4",
       "U+19D5", "U+19D6", "U+19D7", "U+19D8", "U+19D9">>,
     <<"U+1A80", "U+1A81", "U+1A82", "U+1A83", "U+1A84",
       "U+1A85", "U+1A86", "U+1A87", "U+1A88", "U+1A89">>,
     <<"U+1A90", "U+1A91", "U+1A92", "U+1A93", "U+1A94",
       "U+1A95", "U+1A96", "U+1A97", "U+1A98", "U+1A99">>,
     <<"U+1B50", "U+1B51", "U+1B52", "U+1B53", "U+1B54",
       "U+1B55", "U+1B56", "U+1B57", "U+1B58", "U+1B59">>,
     <<"U+1BB0", "U+1BB1", "U+1BB2", "U+1BB3", "U+1BB4",
       "U+1BB5", "U+1BB6", "U+1BB7", "U+1BB8", "U+1BB9">>,
     <<"U+1C40", "U+1C41", "U+1C42", "U+1C43", "U+1C44",
       "U+1C45", "U+1C46", "U+1C47", "U+1C48", "U+1C49">>,
     <<"U+1C50", "U+1C51", "U+1C52", "U+1C53", "U+1C54",
       "U+1C55", "U+1C56", "U+1C57", "U+1C58", "U+1C59">>,
     <<"U+A620", "U+A621", "U+A622", "U+A623", "U+A624",
       "U+A625", "U+A626", "U+A627", "U+A628", "U+A629">>,
     <<"U+A8D0", "U+A8D1", "U+A8D2", "U+A8D3", "U+A8D4",
       "U+A8D5", "U+A8D6", "U+A8D7", "U+A8D8", "U+A8D9">>,
     <<"U+A900", "U+A901", "U+A902", "U+A903", "U+A904",
       "U+A905", "U+A906", "U+A907", "U+A908", "U+A909">>,
     <<"U+A9D0", "U+A9D1", "U+A9D2", "U+A9D3", "U+A9D4",
       "U+A9D5", "U+A9D6", "U+A9D7", "U+A9D8", "U+A9D9">>,
     <<"U+A9F0", "U+A9F1", "U+A9F2", "U+A9F3", "U+A9F4",
       "U+A9F5", "U+A9F6", "U+A9F7", "U+A9F8", "U+A9F9">>,
     <<"U+AA50", "U+AA51", "U+AA52", "U+AA53", "U+AA54",
       "U+AA55", "U+AA56", "U+AA57", "U+AA58", "U+AA59">>,
     <<"U+ABF0", "U+ABF1", "U+ABF2", "U+ABF3", "U+ABF4",
       "U+ABF5", "U+ABF6", "U+ABF7", "U+ABF8", "U+ABF9">>,
     <<"U+FF10", "U+FF11", "U+FF12", "U+FF13", "U+FF14",
       "U+FF15", "U+FF16", "U+FF17", "U+FF18", "U+FF19">>,
     <<"U+104A0", "U+104A1", "U+104A2", "U+104A3", "U+104A4",
       "U+104A5", "U+104A6", "U+104A7", "U+104A8", "U+104A9">>,
     <<"U+10D30", "U+10D31", "U+10D32", "U+10D33", "U+10D34",
       "U+10D35", "U+10D36", "U+10D37", "U+10D38", "U+10D39">>,
     <<"U+10D40", "U+10D41", "U+10D42", "U+10D43", "U+10D44",
       "U+10D45", "U+10D46", "U+10D47", "U+10D48", "U+10D49">>,
     <<"U+11066", "U+11067", "U+11068", "U+11069", "U+1106A",
       "U+1106B", "U+1106C", "U+1106D", "U+1106E", "U+1106F">>,
     <<"U+110F0", "U+110F1", "U+110F2", "U+110F3", "U+110F4",
       "U+110F5", "U+110F6", "U+110F7", "U+110F8", "U+110F9">>,
     <<"U+11136", "U+11137", "U+11138", "U+11139", "U+1113A",
       "U+1113B", "U+1113C", "U+1113D", "U+1113E", "U+1113F">>,
     <<"U+111D0", "U+111D1", "U+111D2", "U+111D3", "U+111D4",
       "U+111D5", "U+111D6", "U+111D7", "U+111D8", "U+111D9">>,
     <<"U+112F0", "U+112F1", "U+112F2", "U+112F3", "U+112F4",
       "U+112F5", "U+112F6", "U+112F7", "U+112F8", "U+112F9">>,
     <<"U+11450", "U+11451", "U+11452", "U+11453", "U+11454",
       "U+11455", "U+11456", "U+11457", "U+11458", "U+11459">>,
     <<"U+114D0", "U+114D1", "U+114D2", "U+114D3", "U+114D4",
       "U+114D5", "U+114D6", "U+114D7", "U+114D8", "U+114D9">>,
     <<"U+11650", "U+11651", "U+11652", "U+11653", "U+11654",
       "U+11655", "U+11656", "U+11657", "U+11658", "U+11659">>,
     <<"U+116C0", "U+116C1", "U+116C2", "U+116C3", "U+116C4",
       "U+116C5", "U+116C6", "U+116C7", "U+116C8", "U+116C9">>,
     <<"U+116D0", "U+116D1", "U+116D2", "U+116D3", "U+116D4",
       "U+116D5", "U+116D6", "U+116D7", "U+116D8", "U+116D9">>,
     <<"U+116DA", "U+116DB", "U+116DC", "U+116DD", "U+116DE",
       "U+116DF", "U+116E0", "U+116E1", "U+116E2", "U+116E3">>,
     <<"U+11730", "U+11731", "U+11732", "U+11733", "U+11734",
       "U+11735", "U+11736", "U+11737", "U+11738", "U+11739">>,
     <<"U+118E0", "U+118E1", "U+118E2", "U+118E3", "U+118E4",
       "U+118E5", "U+118E6", "U+118E7", "U+118E8", "U+118E9">>,
     <<"U+11950", "U+11951", "U+11952", "U+11953", "U+11954",
       "U+11955", "U+11956", "U+11957", "U+11958", "U+11959">>,
     <<"U+11BF0", "U+11BF1", "U+11BF2", "U+11BF3", "U+11BF4",
       "U+11BF5", "U+11BF6", "U+11BF7", "U+11BF8", "U+11BF9">>,
     <<"U+11C50", "U+11C51", "U+11C52", "U+11C53", "U+11C54",
       "U+11C55", "U+11C56", "U+11C57", "U+11C58", "U+11C59">>,
     <<"U+11D50", "U+11D51", "U+11D52", "U+11D53", "U+11D54",
       "U+11D55", "U+11D56", "U+11D57", "U+11D58", "U+11D59">>,
     <<"U+11DA0", "U+11DA1", "U+11DA2", "U+11DA3", "U+11DA4",
       "U+11DA5", "U+11DA6", "U+11DA7", "U+11DA8", "U+11DA9">>,
     <<"U+11F50", "U+11F51", "U+11F52", "U+11F53", "U+11F54",
       "U+11F55", "U+11F56", "U+11F57", "U+11F58", "U+11F59">>,
     <<"U+16130", "U+16131", "U+16132", "U+16133", "U+16134",
       "U+16135", "U+16136", "U+16137", "U+16138", "U+16139">>,
     <<"U+16A60", "U+16A61", "U+16A62", "U+16A63", "U+16A64",
       "U+16A65", "U+16A66", "U+16A67", "U+16A68", "U+16A69">>,
     <<"U+16AC0", "U+16AC1", "U+16AC2", "U+16AC3", "U+16AC4",
       "U+16AC5", "U+16AC6", "U+16AC7", "U+16AC8", "U+16AC9">>,
     <<"U+16B50", "U+16B51", "U+16B52", "U+16B53", "U+16B54",
       "U+16B55", "U+16B56", "U+16B57", "U+16B58", "U+16B59">>,
     <<"U+16D70", "U+16D71", "U+16D72", "U+16D73", "U+16D74",
       "U+16D75", "U+16D76", "U+16D77", "U+16D78", "U+16D79">>,
     <<"U+1CCF0", "U+1CCF1", "U+1CCF2", "U+1CCF3", "U+1CCF4",
       "U+1CCF5", "U+1CCF6", "U+1CCF7", "U+1CCF8", "U+1CCF9">>,
     <<"U+1D7CE", "U+1D7CF", "U+1D7D0", "U+1D7D1", "U+1D7D2",
       "U+1D7D3", "U+1D7D4", "U+1D7D5", "U+1D7D6", "U+1D7D7">>,
     <<"U+1D7D8", "U+1D7D9", "U+1D7DA", "U+1D7DB", "U+1D7DC",
       "U+1D7DD", "U+1D7DE", "U+1D7DF", "U+1D7E0", "U+1D7E1">>,
     <<"U+1D7E2", "U+1D7E3", "U+1D7E4", "U+1D7E5", "U+1D7E6",
       "U+1D7E7", "U+1D7E8", "U+1D7E9", "U+1D7EA", "U+1D7EB">>,
     <<"U+1D7EC", "U+1D7ED", "U+1D7EE", "U+1D7EF", "U+1D7F0",
       "U+1D7F1", "U+1D7F2", "U+1D7F3", "U+1D7F4", "U+1D7F5">>,
     <<"U+1D7F6", "U+1D7F7", "U+1D7F8", "U+1D7F9", "U+1D7FA",
       "U+1D7FB", "U+1D7FC", "U+1D7FD", "U+1D7FE", "U+1D7FF">>,
     <<"U+1E140", "U+1E141", "U+1E142", "U+1E143", "U+1E144",
       "U+1E145", "U+1E146", "U+1E147", "U+1E148", "U+1E149">>,
     <<"U+1E2F0", "U+1E2F1", "U+1E2F2", "U+1E2F3", "U+1E2F4",
       "U+1E2F5", "U+1E2F6", "U+1E2F7", "U+1E2F8", "U+1E2F9">>,
     <<"U+1E4F0", "U+1E4F1", "U+1E4F2", "U+1E4F3", "U+1E4F4",
       "U+1E4F5", "U+1E4F6", "U+1E4F7", "U+1E4F8", "U+1E4F9">>,
     <<"U+1E5F1", "U+1E5F2", "U+1E5F3", "U+1E5F4", "U+1E5F5",
       "U+1E5F6", "U+1E5F7", "U+1E5F8", "U+1E5F9", "U+1E5FA">>,
     <<"U+1E950", "U+1E951", "U+1E952", "U+1E953", "U+1E954",
       "U+1E955", "U+1E956", "U+1E957", "U+1E958", "U+1E959">>,
     <<"U+1FBF0", "U+1FBF1", "U+1FBF2", "U+1FBF3", "U+1FBF4",
       "U+1FBF5", "U+1FBF6", "U+1FBF7", "U+1FBF8", "U+1FBF9">>}

NonAsciiDigit == {row[i] : row \in NonAsciiDigitRows, i \in 1..10}

\* General category Nd.
Digit == AsciiDigit \cup NonAsciiDigit

is_whitespace(c) == c \in WhiteSpace

\* The regex class \d.  A name of more than one character is a code point.
is_digit(c) == c \in AsciiDigit \/ (Len(c) > 1 /\ c \in NonAsciiDigit)

\* The numeric value of a decimal digit character.
DigitValue(c) ==
    CASE c = "0" -> 0 [] c = "1" -> 1 [] c = "2" -> 2 [] c = "3" -> 3
      [] c = "4" -> 4 [] c = "5" -> 5 [] c = "6" -> 6 [] c = "7" -> 7
      [] c = "8" -> 8 [] c = "9" -> 9
      [] OTHER ->
           (CHOOSE i \in 1..10 : \E row \in NonAsciiDigitRows : row[i] = c) - 1

None == <<>>

Some(d) == <<d>>

is_some(o) == Len(o) = 1

\* &s[a..b] with 0-based, end-exclusive offsets.
Slice(s, a, b) == SubSeq(s, a + 1, b)

----------------------------------------------------------------------------
(* The timing-directive pattern \[time\s+(\d{1,2}):(\d{2})\] *)

NoMatch == [ok |-> FALSE, start |-> 0, end |-> 0, g1 |-> <<>>, g2 |-> <<>>]

\* True iff s holds the literal lit at offset a.
LiteralAt(s, a, lit) ==
    /\ a + Len(lit) <= Len(s)
    /\ \A k \in 1..Len(lit) : s[a + k] = lit[k]

\* The number of consecutive whitespace characters of s from offset a on.
RECURSIVE WhitespaceRun(_, _)
WhitespaceRun(s, a) ==
    IF a < Len(s) /\ is_whitespace(s[a + 1]) THEN 1 + WhitespaceRun(s, a + 1) ELSE 0

\* The tail (\d{1,2}):(\d{2})\] at offset a with nd minute digits.
TimeTailAt(s, a, nd) ==
    /\ a + nd + 4 <= Len(s)
    /\ \A k \in 1..nd : is_digit(s[a + k])
    /\ s[a + nd + 1] = ":"
    /\ is_digit(s[a + nd + 2])
    /\ is_digit(s[a + nd + 3])
    /\ s[a + nd + 4] = "]"

\* Mutant: the whitespace after the token is optional (\s* for \s+).
TimeMatchAt_OptionalWhitespace(s, a) ==
    IF ~LiteralAt(s, a, <<"[", "t", "i", "m", "e">>) THEN NoMatch
    ELSE LET ws == WhitespaceRun(s, a + 5)
             d  == a + 5 + ws
             nd == IF TimeTailAt(s, d, 2) THEN 2
                   ELSE IF TimeTailAt(s, d, 1) THEN 1 ELSE 0
         IN  IF nd = 0 THEN NoMatch
             ELSE [ok |-> TRUE, start |-> a, end |-> d + nd + 4,
                   g1 |-> Slice(s, d, d + nd),
                   g2 |-> Slice(s, d + nd + 1, d + nd + 3)]

\* Mutant: up to three minute digits (\d{1,3} for \d{1,2}).
TimeMatchAt_ThreeMinuteDigits(s, a) ==
    IF ~LiteralAt(s, a, <<"[", "t", "i", "m", "e">>) THEN NoMatch
    ELSE LET ws == WhitespaceRun(s, a + 5)
             d  == a + 5 + ws
             nd == IF TimeTailAt(s, d, 3) THEN 3
                   ELSE IF TimeTailAt(s, d, 2) THEN 2
                   ELSE IF TimeTailAt(s, d, 1) THEN 1 ELSE 0
         IN  IF ws = 0 \/ nd = 0 THEN NoMatch
             ELSE [ok |-> TRUE, start |-> a, end |-> d + nd + 4,
                   g1 |-> Slice(s, d, d + nd),
                   g2 |-> Slice(s, d + nd + 1, d + nd + 3)]

\* The match of the pattern that starts at offset a, if there is one.  The
\* character classes of adjacent pattern elements are disjoint, so the greedy
\* \s+ takes the whole whitespace run and at most one digit count fits.
TimeMatchAt(s, a) ==
    IF ~LiteralAt(s, a, <<"[", "t", "i", "m", "e">>) THEN NoMatch
    ELSE LET ws == WhitespaceRun(s, a + 5)
             d  == a + 5 + ws
             nd == IF TimeTailAt(s, d, 2) THEN 2
                   ELSE IF TimeTailAt(s, d, 1) THEN 1 ELSE 0
         IN  IF ws = 0 \/ nd = 0 THEN NoMatch
             ELSE [ok |-> TRUE, start |-> a, end |-> d + nd + 4,
                   g1 |-> Slice(s, d, d + nd),
                   g2 |-> Slice(s, d + nd + 1, d + nd + 3)]

\* The leftmost match at or after offset a: one step of captures_iter.
RECURSIVE NextTimeMatch(_, _)
NextTimeMatch(s, a) ==
    IF a >= Len(s) THEN NoMatch
    ELSE LET m == TimeMatchAt(s, a)
         IN  IF m.ok THEN m ELSE NextTimeMatch(s, a + 1)

----------------------------------------------------------------------------
(* String helpers of the Rust standard library *)

\* str::trim: the string without its leading and trailing whitespace.
trim(s) ==
    LET keep == {i \in 1..Len(s) : ~is_whitespace(s[i])}
    IN  IF keep = {} THEN <<>>
        ELSE SubSeq(s, CHOOSE i \in keep : \A j \in keep : i <= j,
                       CHOOSE i \in keep : \A j \in keep : i >= j)

\* str::replace(from, to): every non-overlapping occurrence of from, found
\* left to right, replaced by to.
RECURSIVE replace(_, _, _)
replace(s, from, to) ==
    IF s = <<>> THEN <<>>
    ELSE IF LiteralAt(s, 0, from)
         THEN to \o replace(Slice(s, Len(from), Len(s)), from, to)
         ELSE <<s[1]>> \o replace(Tail(s), from, to)

\* str::parse::<u32>() followed by unwrap_or(0): the decimal value of a run
\* of ASCII digits; any other character makes the parse fail, hence 0.
RECURSIVE DecimalValue(_)
DecimalValue(s) ==
    IF s = <<>> THEN 0
    ELSE 10 * DecimalValue(SubSeq(s, 1, Len(s) - 1)) + DigitValue(s[Len(s)])

parse_u32_or_0(s) ==
    IF s # <<>> /\ \A k \in 1..Len(s) : s[k] \in AsciiDigit
    THEN DecimalValue(s)
    ELSE 0

----------------------------------------------------------------------------
(* u32 arithmetic *)

\* u32::MAX div 2; a + b exceeds u32::MAX iff (a + b) div 2 exceeds it.
HalfU32Max == 2147483647

\* a + b overflows u32.
AddOverflows(a, b) ==
    (a \div 2) + (b \div 2) + (((a % 2) + (b % 2)) \div 2) > HalfU32Max

\* a + b where overflow checks are off: the sum modulo 2^32.
WrappingAdd(a, b) ==
    IF AddOverflows(a, b)
    THEN (a - HalfU32Max - 1) + (b - HalfU32Max - 1)
    ELSE a + b

----------------------------------------------------------------------------
(* The places where parse_notes_to_segments can panic *)

\* &s[a..b] panics when the range is reversed or past the end.
SlicePanics(s, a, b) == a > b \/ b > Len(s)

\* Mutant: parse().unwrap() for parse().unwrap_or(0).
DurationPanics_Unwrap(cap) ==
    \/ cap.g1 = <<>>
    \/ cap.g2 = <<>>
    \/ \E k \in 1..Len(cap.g1) : cap.g1[k] \notin AsciiDigit
    \/ \E k \in 1..Len(cap.g2) : cap.g2[k] \notin AsciiDigit

\* cap.get(n).unwrap() panics for a group that took no part in the match;
\* parse().unwrap_or(0) does not panic.
DurationPanics(cap) ==
    \/ cap.g1 = <<>>
    \/ cap.g2 = <<>>

\* minutes * 60 + seconds overflows u32.
DurationOverflows(cap) ==
    AddOverflows(parse_u32_or_0(cap.g1) * 60, parse_u32_or_0(cap.g2))

----------------------------------------------------------------------------
(* clean_text_for_display *)

\* time_pattern.replace_all(text, ""): the text outside the matches.
RECURSIVE RemoveTimeTags(_, _)
RemoveTimeTags(text, from) ==
    LET m == NextTimeMatch(text, from)
    IN  IF m.ok
        THEN Slice(text, from, m.start) \o RemoveTimeTags(text, m.end)
        ELSE Slice(text, from, Len(text))

\* Mutant: the lone-CR replacement is forgotten.
clean_text_for_display_CrKept(text) ==
    LET cleaned == RemoveTimeTags(text, 0)
    IN  trim(replace(cleaned, <<"\r", "\n">>, <<"\n">>))

clean_text_for_display(text) ==
    LET cleaned == RemoveTimeTags(text, 0)
    IN  trim(replace(replace(cleaned, <<"\r", "\n">>, <<"\n">>), <<"\r">>, <<"\n">>))

----------------------------------------------------------------------------
(* parse_notes_to_segments *)

TeleprompterSegment(text, duration, start) ==
    [text |-> text, duration_seconds |-> duration, start_time_seconds |-> start]

\* The local variables of parse_notes_to_segments before the loop, and two
\* records of the run so far: panicked, a statement that panics in every
\* build was reached (an unwrap of None, a slice out of range); overflowed,
\* a u32 sum overflowed, which is a panic in a build with overflow checks (the
\* dev profile) and a wrapped value in a build without (the release profile).
ParseStart ==
    [segments |-> <<>>, cumulative_time |-> 0, has_any_timing |-> FALSE,
     last_end |-> 0, pending_duration |-> None,
     panicked |-> FALSE, overflowed |-> FALSE]

\* Mutant: the running time is not advanced after a push.
PushSegment_NoAccumulate(st, text) ==
    [st EXCEPT
        !.segments = Append(@, TeleprompterSegment(text, st.pending_duration,
                                                   st.cumulative_time))]

\* segments.push(...) with the pending duration and the running start time,
\* then cumulative_time += d when a duration is pending.
PushSegment(st, text) ==
    [st EXCEPT
        !.segments = Append(@, TeleprompterSegment(text, st.pending_duration,
                                                   st.cumulative_time)),
        !.cumulative_time = IF is_some(st.pending_duration)
                            THEN WrappingAdd(@, st.pending_duration[1]) ELSE @,
        !.overflowed = @ \/ ( /\ is_some(st.pending_duration)
                              /\ AddOverflows(st.cumulative_time,
                                              st.pending_duration[1]) )]

\* The text between two tags (or after the last): cleaned, and pushed as a
\* segment unless it is blank.
EmitText(st, text) ==
    LET cleaned_text == clean_text_for_display(text)
    IN  IF trim(cleaned_text) # <<>> THEN PushSegment(st, cleaned_text) ELSE st

\* Mutant: the minutes are dropped.
Duration_SecondsOnly(cap) == parse_u32_or_0(cap.g2)

\* minutes * 60 + seconds of a match.
Duration(cap) == parse_u32_or_0(cap.g1) * 60 + parse_u32_or_0(cap.g2)

\* Mutant: has_any_timing is set only when the text before the tag was pushed.
LoopBody_TimingOnlyWithText(ns, st, cap) ==
    LET text_before == Slice(ns, st.last_end, cap.start)
        after == EmitText(st, text_before)
    IN  [after EXCEPT
            !.pending_duration = Some(Duration(cap)),
            !.has_any_timing = @ \/ after.segments # st.segments,
            !.last_end = cap.end]

\* Mutant: the tag's duration is given to the text before the tag.
LoopBody_Retroactive(ns, st, cap) ==
    LET text_before == Slice(ns, st.last_end, cap.start)
        timed == [st EXCEPT !.pending_duration = Some(Duration(cap))]
    IN  [EmitText(timed, text_before) EXCEPT
            !.has_any_timing = TRUE,
            !.last_end = cap.end]

\* Mutant: the pending duration is added to the running time for every tag,
\* also when no text was pushed for it.
LoopBody_CountsSuperseded(ns, st, cap) ==
    LET text_before == Slice(ns, st.last_end, cap.start)
        after == EmitText(st, text_before)
    IN  [after EXCEPT
            !.cumulative_time =
                IF after.segments = st.segments /\ is_some(st.pending_duration)
                THEN WrappingAdd(@, st.pending_duration[1]) ELSE @,
            !.pending_duration = Some(Duration(cap)),
            !.has_any_timing = TRUE,
            !.last_end = cap.end]

\* One iteration of the loop over captures_iter, for the match cap.
LoopBody(ns, st, cap) ==
    LET text_before == Slice(ns, st.last_end, cap.start)
    IN  [EmitText(st, text_before) EXCEPT
            !.pending_duration = Some(Duration(cap)),
            !.has_any_timing = TRUE,
            !.last_end = cap.end,
            !.panicked = @ \/ DurationPanics(cap)
                           \/ SlicePanics(ns, st.last_end, cap.start),
            !.overflowed = @ \/ DurationOverflows(cap)]

RECURSIVE ParseLoop(_, _)
ParseLoop(ns, st) ==
    LET cap == NextTimeMatch(ns, st.last_end)
    IN  IF cap.ok THEN ParseLoop(ns, LoopBody(ns, st, cap)) ELSE st

\* The text after the last tag.
Remaining(ns, st) ==
    [EmitText(st, Slice(ns, st.last_end, Len(ns))) EXCEPT
        !.panicked = @ \/ SlicePanics(ns, st.last_end, Len(ns))]

\* Mutant: the check that the notes are not blank is missing.
Fallback_AlsoWhenBlank(ns, st) ==
    IF st.segments = <<>>
    THEN [st EXCEPT !.segments =
            Append(@, TeleprompterSegment(clean_text_for_display(ns), None, 0))]
    ELSE st

\* Mutant: the fallback is taken only when no tag was seen.
Fallback_OnlyWithoutTags(ns, st) ==
    IF st.segments = <<>> /\ ~st.has_any_timing /\ trim(ns) # <<>>
    THEN [st EXCEPT !.segments =
            Append(@, TeleprompterSegment(clean_text_for_display(ns), None, 0))]
    ELSE st

\* Mutant: the fallback segment holds the input as written.
Fallback_RawText(ns, st) ==
    IF st.segments = <<>> /\ trim(ns) # <<>>
    THEN [st EXCEPT !.segments = Append(@, TeleprompterSegment(ns, None, 0))]
    ELSE st

\* One segment with all content when no segment was created.
Fallback(ns, st) ==
    IF st.segments = <<>> /\ trim(ns) # <<>>
    THEN [st EXCEPT !.segments =
            Append(@, TeleprompterSegment(clean_text_for_display(ns), None, 0))]
    ELSE st

\* Iterator::sum over the durations, which adds as + does.
RECURSIVE SumDurations(_)
SumDurations(segs) ==
    IF segs = <<>> THEN 0
    ELSE WrappingAdd(SumDurations(SubSeq(segs, 1, Len(segs) - 1)),
                     IF is_some(segs[Len(segs)].duration_seconds)
                     THEN segs[Len(segs)].duration_seconds[1] ELSE 0)

\* Mutant: the sum of the timed segments, whether or not all are timed.
TotalDuration_PartialSum(st) ==
    IF st.has_any_timing THEN Some(SumDurations(st.segments)) ELSE None

TotalDuration(st) ==
    IF /\ st.has_any_timing
       /\ \A k \in 1..Len(st.segments) : is_some(st.segments[k].duration_seconds)
    THEN Some(SumDurations(st.segments))
    ELSE None

\* Iterator::sum over the durations overflows u32, starting from acc.
RECURSIVE SumOverflows(_, _)
SumOverflows(ss, acc) ==
    /\ ss # <<>>
    /\ LET d == IF is_some(Head(ss).duration_seconds)
                THEN Head(ss).duration_seconds[1] ELSE 0
       IN  AddOverflows(acc, d) \/ SumOverflows(Tail(ss), WrappingAdd(acc, d))

\* The local variables where the function returns.
ParseEnd(ns) == Fallback(ns, Remaining(ns, ParseLoop(ns, ParseStart)))

\* The TeleprompterContent returned.
Returned(st) ==
    [segments |-> st.segments,
     total_duration_seconds |-> TotalDuration(st),
     has_timing |-> st.has_any_timing]

parse_notes_to_segments(ns) == Returned(ParseEnd(ns))

\* The run that ended in st panicked in every build.
ParsePanics(st) == st.panicked

\* One of the u32 sums of the run that ended in st overflowed.
ParseOverflows(st) ==
    \/ st.overflowed
    \/ TotalDuration(st) # None /\ SumOverflows(st.segments, 0)

----------------------------------------------------------------------------
(* The command parse_teleprompter_content and the notes it is called with *)

\* The number of pieces of text appended to a seed.
MaxPieces == 4

Tag10 == <<"[", "t", "i", "m", "e", " ", "0", "0", ":", "1", "0", "]">>

Tag20 == <<"[", "t", "i", "m", "e", " ", "0", "0", ":", "2", "0", "]">>

\* One minute digit, seconds beyond 59, CR LF after the token.
Tag1m99 == <<"[", "t", "i", "m", "e", "\r", "\n", "1", ":", "9", "9", "]">>

\* A tag written with Arabic-Indic digits.
TagArabic == <<"[", "t", "i", "m", "e", " ", "U+0661", ":", "U+0663", "U+0660", "]">>

\* Single-digit seconds: not a tag.
Malformed == <<"[", "t", "i", "m", "e", " ", "1", ":", "2", "]">>

NoteTag == <<"[", "n", "o", "t", "e", " ", "b", "]">>

Text == <<"T", "e", "x", "t">>

Pieces ==
    {Text, <<" ">>, <<"\r">>, <<"\n">>, Tag10, Tag20, Tag1m99, TagArabic,
     Malformed, NoteTag}

\* The notes the user starts from: nothing, or one timed section.
Seeds == {<<>>, Tag10 \o Text}

\* No call of calculate_scroll_speed has been made.
NoCall == [made |-> FALSE]

NoContent == [segments |-> <<>>, total_duration_seconds |-> None, has_timing |-> FALSE]

Init ==
    /\ notes \in Seeds
    /\ edits = 0
    /\ content = NoContent
    /\ pc = "input"
    /\ raw_text = <<>>
    /\ formatted = <<>>
    /\ reformatted = <<>>
    /\ call = NoCall
    /\ AppIdle

\* The user extends the notes by one piece.
Type(p) ==
    /\ pc = "input"
    /\ edits < MaxPieces
    /\ notes' = notes \o p
    /\ edits' = edits + 1
    /\ UNCHANGED <<content, pc, raw_text, formatted, reformatted, call, appVars>>

\* The command parse_teleprompter_content(notes): Ok(parse_notes_to_segments),
\* unless the parser panics.  Where a u32 sum overflows, the build decides:
\* with overflow checks the parser panics, without them the sum wraps and the
\* parser returns.
parse_teleprompter_content ==
    /\ pc = "input"
    /\ LET st == ParseEnd(notes)
       IN  \/ /\ ParsePanics(st) \/ ParseOverflows(st)
              /\ pc' = "panicked"
              /\ UNCHANGED content
           \/ /\ ~ParsePanics(st)
              /\ pc' = "parsed"
              /\ content' = Returned(st)
    /\ UNCHANGED <<notes, edits, raw_text, formatted, reformatted, call, appVars>>

Next ==
    \/ \E p \in Pieces : Type(p)
    \/ parse_teleprompter_content

Spec == Init /\ [][Next]_vars

\* Notes made of well-formed and malformed tags: three minute digits, an
\* upper-case token, and a tag typed in two parts with any whitespace (or
\* none) between the token and the digits.
ThreeDigit == <<"[", "t", "i", "m", "e", " ", "1", "0", "0", ":", "0", "0", "]">>

UpperCase == <<"[", "T", "I", "M", "E", " ", "0", "0", ":", "1", "0", "]">>

TimeToken == <<"[", "t", "i", "m", "e">>

Tail20 == <<"0", "0", ":", "2", "0", "]">>

ShapePieces ==
    {Text, <<" ">>, Malformed, ThreeDigit, UpperCase, TimeToken, Tail20}

NextShapes ==
    \/ \E p \in ShapePieces : Type(p)
    \/ parse_teleprompter_content

SpecShapes == Init /\ [][NextShapes]_vars

----------------------------------------------------------------------------
(* format_notes_for_display: the pattern \[note\s+([^\]]+)\] *)

NoteToken == <<"[", "n", "o", "t", "e">>

\* The offset of the first "]" of s at or after offset a; Len(s) if none.
RECURSIVE FirstClose(_, _)
FirstClose(s, a) ==
    IF a >= Len(s) THEN Len(s)
    ELSE IF s[a + 1] = "]" THEN a ELSE FirstClose(s, a + 1)

\* The match of the pattern that starts at offset a, if there is one.  The
\* content cannot hold "]", so the match ends at the first "]" after the
\* token.  Whitespace is in the content class too: the greedy \s+ takes the
\* whole whitespace run, and gives one character back when the run reaches
\* the bracket and the content would be empty.
NoteMatchAt(s, a) ==
    IF ~LiteralAt(s, a, NoteToken) THEN NoMatch
    ELSE LET ws    == WhitespaceRun(s, a + 5)
             close == FirstClose(s, a + 5)
             n     == close - (a + 5)
             k     == IF ws = n THEN n - 1 ELSE ws
         IN  IF ws = 0 \/ close = Len(s) \/ n < 2 THEN NoMatch
             ELSE [ok |-> TRUE, start |-> a, end |-> close + 1,
                   g1 |-> Slice(s, a + 5 + k, close), g2 |-> <<>>]

\* The leftmost match at or after offset a.
RECURSIVE NextNoteMatch(_, _)
NextNoteMatch(s, a) ==
    IF a >= Len(s) THEN NoMatch
    ELSE LET m == NoteMatchAt(s, a)
         IN  IF m.ok THEN m ELSE NextNoteMatch(s, a + 1)

\* Mutant: the whole match is wrapped, not its content.
NoteWrapper_WholeMatch(c) ==
    <<"<", "n", "o", "t", "e", ">">> \o NoteToken \o <<" ">> \o c \o <<"]">>
        \o <<"<", "/", "n", "o", "t", "e", ">">>

\* format!("<note>{}</note>", content)
NoteWrapper(c) ==
    <<"<", "n", "o", "t", "e", ">">> \o c \o <<"<", "/", "n", "o", "t", "e", ">">>

\* replace_all from offset a on: the text outside the matches, each match
\* replaced by its wrapper.
RECURSIVE ReplaceNotes(_, _)
ReplaceNotes(s, a) ==
    LET m == NextNoteMatch(s, a)
    IN  IF m.ok
        THEN Slice(s, a, m.start) \o NoteWrapper(m.g1) \o ReplaceNotes(s, m.end)
        ELSE Slice(s, a, Len(s))

\* Mutant: only the first match is replaced (replace for replace_all).
format_notes_for_display_FirstOnly(s) ==
    LET m == NextNoteMatch(s, 0)
    IN  IF m.ok
        THEN Slice(s, 0, m.start) \o NoteWrapper(m.g1) \o Slice(s, m.end, Len(s))
        ELSE s

format_notes_for_display(s) == ReplaceNotes(s, 0)

----------------------------------------------------------------------------
(* The rendering layer formats a text, and formats the result again *)

Example == <<"H", "e", "l", "l", "o", " ", "[", "n", "o", "t", "e", " ", "s", "m", "i", "l", "e", "]", " ", "w", "o", "r", "l", "d", " ", "[", "n", "o", "t", "e", " ", "p", "a", "u", "s", "e", "]", "!">>

ExampleFormatted ==
    <<"H", "e", "l", "l", "o", " ", "<", "n", "o", "t", "e", ">", "s", "m", "i", "l", "e", "<", "/", "n", "o", "t", "e", ">", " ", "w", "o", "r", "l", "d", " ", "<", "n", "o", "t", "e", ">", "p", "a", "u", "s", "e", "<", "/", "n", "o", "t", "e", ">", "!">>

FormatPieces == {NoteToken, <<" ">>, <<"b">>, <<"]">>, NoteTag}

\* The texts to start from: nothing, the example of the test, an open marker.
FormatSeeds == {<<>>, Example, NoteToken \o <<" ">>}

InitFormat ==
    /\ raw_text \in FormatSeeds
    /\ edits = 0
    /\ pc = "input"
    /\ formatted = <<>>
    /\ reformatted = <<>>
    /\ notes = <<>>
    /\ content = NoContent
    /\ call = NoCall
    /\ AppIdle

TypeText(p) ==
    /\ pc = "input"
    /\ edits < MaxPieces
    /\ raw_text' = raw_text \o p
    /\ edits' = edits + 1
    /\ UNCHANGED <<notes, content, pc, formatted, reformatted, call, appVars>>

Format ==
    /\ pc = "input"
    /\ formatted' = format_notes_for_display(raw_text)
    /\ pc' = "formatted"
    /\ UNCHANGED <<notes, edits, content, raw_text, reformatted, call, appVars>>

FormatAgain ==
    /\ pc = "formatted"
    /\ reformatted' = format_notes_for_display(formatted)
    /\ pc' = "reformatted"
    /\ UNCHANGED <<notes, edits, content, raw_text, formatted, call, appVars>>

NextFormat ==
    \/ \E p \in FormatPieces : TypeText(p)
    \/ Format
    \/ FormatAgain

SpecFormat == InitFormat /\ [][NextFormat]_vars

----------------------------------------------------------------------------
(* The sample notes *)

\* The notes of test_parse_notes_with_timing.
Sample ==
    <<"W", "e", "l", "c", "o", "m", "e", "!", " ", "[", "t", "i", "m", "e",
      " ", "0", "0", ":", "3", "0", "]", "\n", "T", "h", "i", "s", " ", "i",
      "s", " ", "t", "h", "e", " ", "f", "i", "r", "s", "t", " ", "s", "e",
      "c", "t", "i", "o", "n", ".", "\n", "\n", "[", "t", "i", "m", "e", " ",
      "0", "1", ":", "0", "0", "]", "\n", "T", "h", "i", "s", " ", "i", "s",
      " ", "t", "h", "e", " ", "s", "e", "c", "o", "n", "d", " ", "s", "e",
      "c", "t", "i", "o", "n", ".", "\n", "[", "n", "o", "t", "e", " ", "r",
      "e", "m", "e", "m", "b", "e", "r", " ", "t", "o", " ", "p", "a", "u",
      "s", "e", "]", "\n", "\n", "N", "o", " ", "t", "i", "m", "i", "n", "g",
      " ", "h", "e", "r", "e", ".">>

\* The sample is typed in, one character after the other.
TypeSample ==
    /\ pc = "input"
    /\ Len(notes) < Len(Sample)
    /\ notes = SubSeq(Sample, 1, Len(notes))
    /\ notes' = Append(notes, Sample[Len(notes) + 1])
    /\ UNCHANGED <<edits, content, pc, raw_text, formatted, reformatted, call, appVars>>

InitSample ==
    /\ notes = <<>>
    /\ edits = 0
    /\ content = NoContent
    /\ pc = "input"
    /\ raw_text = <<>>
    /\ formatted = <<>>
    /\ reformatted = <<>>
    /\ call = NoCall
    /\ AppIdle

NextSample == TypeSample \/ parse_teleprompter_content

SpecSample == InitSample /\ [][NextSample]_vars

----------------------------------------------------------------------------
(* calculate_scroll_speed *)

\* An f32 is a sign, a significand m of at most 24 bits and an exponent e: the
\* number m * 2^e.  m is odd, or zero with e = 0, so that one number has one
\* record; subnormal numbers have e = -149.  The kinds "inf" and "nan" are the
\* non-finite values.
Finite(neg, m, e) == [kind |-> "finite", neg |-> neg, m |-> m, e |-> e]

Infinite(neg) == [kind |-> "inf", neg |-> neg, m |-> 0, e |-> 0]

NaN == [kind |-> "nan", neg |-> FALSE, m |-> 0, e |-> 0]

\* 2^24: a significand is below it.
SignificandLimit == 16777216

\* The exponent of the last bit of the smallest subnormal number.
MinExponent == 0 - 149

\* The largest exponent a 24-bit significand can have: (2^24 - 1) * 2^104 is
\* f32::MAX.
MaxExponent == 104

\* m * 2^e with m made odd.
RECURSIVE Canonical(_, _, _)
Canonical(neg, m, e) ==
    IF m = 0 THEN Finite(neg, 0, 0)
    ELSE IF m % 2 = 0 THEN Canonical(neg, m \div 2, e + 1)
    ELSE Finite(neg, m, e)

\* The f32 nearest to (q + r / d) * 2^e, ties to the even significand, for
\* 0 <= r < d: the quotient is brought to 24 bits, or to the bits that are
\* left at the exponent of the subnormal numbers, one bit at a time, then
\* rounded on the remainder.  A bit that is shifted out goes into the
\* remainder, of which the rounding needs to know only whether it is zero,
\* below a half, a half or above a half: 0, 1, 2 or 3 quarters.
RECURSIVE RoundToF32(_, _, _, _, _)
RoundToF32(neg, q, r, d, e) ==
    IF q = 0 /\ r = 0 THEN Finite(neg, 0, 0)
    ELSE IF q >= SignificandLimit \/ e < MinExponent
    THEN RoundToF32(neg, q \div 2, 2 * (q % 2) + (IF r > 0 THEN 1 ELSE 0), 4,
                    e + 1)
    ELSE IF 2 * q < SignificandLimit /\ e > MinExponent
    THEN IF 2 * r >= d
         THEN RoundToF32(neg, 2 * q + 1, 2 * r - d, d, e - 1)
         ELSE RoundToF32(neg, 2 * q, 2 * r, d, e - 1)
    ELSE LET m == IF 2 * r > d \/ (2 * r = d /\ q % 2 = 1) THEN q + 1 ELSE q
         IN  IF e > MaxExponent \/ (e = MaxExponent /\ m = SignificandLimit)
             THEN Infinite(neg)
             ELSE Canonical(neg, m, e)

\* The f32 nearest to the fraction n / d, d > 0: an f32 literal, or an
\* integer cast by `as f32`.
F32(n, d) ==
    IF n < 0 THEN RoundToF32(TRUE, (0 - n) \div d, (0 - n) % d, d, 0)
    ELSE RoundToF32(FALSE, n \div d, n % d, d, 0)

\* x / y on f32 for y >= 0, as IEEE 754 divides.
Divide(x, y) ==
    IF x.kind = "nan" \/ y.kind = "nan" THEN NaN
    ELSE IF x.kind = "inf" THEN IF y.kind = "inf" THEN NaN ELSE Infinite(x.neg)
    ELSE IF y.kind = "inf" THEN Finite(x.neg, 0, 0)
    ELSE IF y.m = 0 THEN IF x.m = 0 THEN NaN ELSE Infinite(x.neg)
    ELSE RoundToF32(x.neg, x.m \div y.m, x.m % y.m, y.m, x.e - y.e)

\* x / (k as f32)
DivideBy(x, k) == Divide(x, F32(k, 1))

\* Mutant: the guard duration > 0 is missing.
calculate_scroll_speed_NoZeroGuard(segment_height, duration_seconds, default_speed) ==
    IF is_some(duration_seconds)
    THEN DivideBy(segment_height, duration_seconds[1])
    ELSE default_speed

calculate_scroll_speed(segment_height, duration_seconds, default_speed) ==
    IF is_some(duration_seconds) /\ duration_seconds[1] > 0
    THEN DivideBy(segment_height, duration_seconds[1])
    ELSE default_speed

\* The arguments it is called with: pixel heights, and heights at the lower
\* end of f32 (the smallest subnormal number and three times it, the
\* smallest normal number and the number after it); the durations a
\* directive can give (and none); default speeds.
Heights ==
    {F32(0, 1), F32(1, 1), F32(1, 10), F32(300, 1), F32(301, 2), F32(1080, 1),
     Finite(FALSE, 1, MinExponent), Finite(FALSE, 3, MinExponent),
     Finite(FALSE, 1, 0 - 126), Finite(FALSE, 8388609, MinExponent)}

\* 16777217 is the first integer that `as f32` has to round.
Durations ==
    {None, Some(0), Some(1), Some(2), Some(3), Some(4), Some(7), Some(30),
     Some(60), Some(6039), Some(16777216), Some(16777217)}

DefaultSpeeds == {F32(0, 1), F32(10, 1), F32(25, 2)}

InitScroll ==
    /\ call = NoCall
    /\ pc = "input"
    /\ notes = <<>>
    /\ edits = 0
    /\ content = NoContent
    /\ raw_text = <<>>
    /\ formatted = <<>>
    /\ reformatted = <<>>
    /\ AppIdle

ScrollSpeed(h, d, s) ==
    /\ ~call.made
    /\ call' = [made |-> TRUE, segment_height |-> h, duration_seconds |-> d,
                default_speed |-> s, result |-> calculate_scroll_speed(h, d, s)]
    /\ UNCHANGED <<notes, edits, content, pc, raw_text, formatted, reformatted, appVars>>

NextScroll ==
    \E h \in Heights, d \in Durations, s \in DefaultSpeeds : ScrollSpeed(h, d, s)

SpecScroll == InitScroll /\ [][NextScroll]_vars

----------------------------------------------------------------------------
(* Vocabulary of the properties: the directives of an input and the spans  *)
(* of text around them, stated without the parser's loop.                  *)

parsed == pc = "parsed"

segs == content.segments

\* The input contains a timing directive: the pattern matches somewhere.
HasDirective(ns) == \E a \in 0..(Len(ns) - 1) : TimeMatchAt(ns, a).ok

\* The input is empty or whitespace-only.
Blank(ns) == \A i \in 1..Len(ns) : is_whitespace(ns[i])

\* The directive matches of the input, left to right, from offset a on.
RECURSIVE DirectivesFrom(_, _)
DirectivesFrom(ns, a) ==
    LET m == NextTimeMatch(ns, a)
    IN  IF m.ok THEN <<m>> \o DirectivesFrom(ns, m.end) ELSE <<>>

Directives(ns) == DirectivesFrom(ns, 0)

\* The spans of input before the first directive, between consecutive
\* directives and after the last; tag is the number of directives that
\* precede the span (0 for the span before the first directive).
Spans(ns) ==
    LET M == Directives(ns)
        n == Len(M)
    IN  [k \in 1..(n + 1) |->
            [from |-> IF k = 1 THEN 0 ELSE M[k - 1].end,
             to   |-> IF k = n + 1 THEN Len(ns) ELSE M[k].start,
             tag  |-> k - 1]]

SpanText(ns, sp) == Slice(ns, sp.from, sp.to)

\* The spans that hold some non-whitespace character, in source order.
TextSpans(ns) == SelectSeq(Spans(ns), LAMBDA sp : ~Blank(SpanText(ns, sp)))

\* CRLF and lone CR replaced by LF, in one pass over the text.
RECURSIVE Normalised(_)
Normalised(s) ==
    IF s = <<>> THEN <<>>
    ELSE IF s[1] = "\r"
         THEN IF Len(s) >= 2 /\ s[2] = "\n"
              THEN <<"\n">> \o Normalised(Tail(Tail(s)))
              ELSE <<"\n">> \o Normalised(Tail(s))
         ELSE <<s[1]>> \o Normalised(Tail(s))

\* Leading and trailing whitespace dropped, one character at a time.
RECURSIVE Trimmed(_)
Trimmed(s) ==
    IF s = <<>> THEN <<>>
    ELSE IF is_whitespace(s[1]) THEN Trimmed(Tail(s))
    ELSE IF is_whitespace(s[Len(s)]) THEN Trimmed(SubSeq(s, 1, Len(s) - 1))
    ELSE s

\* A segment's duration, absent counted as 0.
DurationOrZero(seg) ==
    IF seg.duration_seconds = None THEN 0 ELSE seg.duration_seconds[1]

\* The sum of the durations of the first n segments.
RECURSIVE SumOfFirst(_, _)
SumOfFirst(ss, n) ==
    IF n = 0 THEN 0 ELSE SumOfFirst(ss, n - 1) + DurationOrZero(ss[n])

AllTimed(ss) == \A k \in 1..Len(ss) : ss[k].duration_seconds # None

----------------------------------------------------------------------------
(* Properties of parse_notes_to_segments *)

\* C1: each segment's start_time_seconds is the sum of the durations (absent
\* counted as 0) of the segments strictly before it; hence the first segment
\* starts at 0 and start times never decrease along the sequence.
C1_StartTimeIsSumOfEarlier ==
    parsed =>
        /\ \A k \in 1..Len(segs) :
              segs[k].start_time_seconds = SumOfFirst(segs, k - 1)
        /\ segs # <<>> => segs[1].start_time_seconds = 0
        /\ \A k \in 1..(Len(segs) - 1) :
              segs[k].start_time_seconds <= segs[k + 1].start_time_seconds

\* Three segments, the later two starting after time has accumulated.
C1_Witness ==
    /\ parsed
    /\ Len(segs) >= 3
    /\ 0 < segs[2].start_time_seconds
    /\ segs[2].start_time_seconds < segs[3].start_time_seconds

\* C2: total_duration_seconds is present iff the input contains a timing
\* directive and every segment has a duration; when present it is the sum of
\* the durations of all segments.
C2_TotalIsAllOrNothing ==
    parsed =>
        /\ content.total_duration_seconds # None
              <=> (HasDirective(notes) /\ AllTimed(segs))
        /\ content.total_duration_seconds # None =>
              content.total_duration_seconds = Some(SumOfFirst(segs, Len(segs)))

\* A total over two timed segments.
C2_Witness ==
    /\ parsed
    /\ Len(segs) >= 2
    /\ content.total_duration_seconds # None
    /\ content.total_duration_seconds[1] > DurationOrZero(segs[1])

\* C3: has_timing is true iff the input contains a timing directive, whether
\* or not any segment carries a duration.
C3_HasTimingIffDirective ==
    parsed => (content.has_timing <=> HasDirective(notes))

\* A directive followed by no text: has_timing is set, no segment is timed.
C3_Witness ==
    /\ parsed
    /\ content.has_timing
    /\ segs # <<>>
    /\ \A k \in 1..Len(segs) : segs[k].duration_seconds = None
    /\ segs[1].text # <<>>

\* C4: a non-blank input without a timing directive gives exactly one
\* segment, its text the cleaned whole input (line breaks normalised,
\* trimmed), without duration and starting at 0; has_timing is false and the
\* total is absent.
C4_NoDirectiveOneSegment ==
    (parsed /\ ~HasDirective(notes) /\ ~Blank(notes)) =>
        /\ segs = <<TeleprompterSegment(Trimmed(Normalised(notes)), None, 0)>>
        /\ content.has_timing = FALSE
        /\ content.total_duration_seconds = None

\* An input without directive whose cleaning changes it: the CR LF inside
\* it has become one LF.
C4_Witness ==
    /\ parsed
    /\ ~HasDirective(notes)
    /\ \E i \in 1..(Len(notes) - 1) : notes[i] = "\r" /\ notes[i + 1] = "\n"
    /\ Len(segs) = 1
    /\ Len(segs[1].text) < Len(notes)
    /\ \E i \in 1..Len(segs[1].text) : segs[1].text[i] = "\n"

\* C5: an empty or whitespace-only input gives zero segments, has_timing
\* false and no total.
C5_BlankInputNoSegments ==
    (parsed /\ Blank(notes)) =>
        /\ segs = <<>>
        /\ content.has_timing = FALSE
        /\ content.total_duration_seconds = None

\* A whitespace-only input that is not empty has been parsed.
C5_Witness ==
    /\ parsed
    /\ Len(notes) >= 2
    /\ Blank(notes)
    /\ segs = <<>>

\* C6: the segment list is empty only for a blank input: an input with a
\* non-whitespace character, also one made of directives only, gives at
\* least one segment.
C6_NonBlankInputHasSegment ==
    (parsed /\ ~Blank(notes)) => Len(segs) >= 1

\* An input of two directives and whitespace, and nothing else.
C6_Witness ==
    /\ parsed
    /\ Len(Directives(notes)) >= 2
    /\ TextSpans(notes) = <<>>
    /\ \E i \in 1..Len(notes) : is_whitespace(notes[i]) /\ i > 1 /\ i < Len(notes)
    /\ Len(segs) = 1

\* The duration a directive states, from its digits as written.
WrittenDuration(m) == DecimalValue(m.g1) * 60 + DecimalValue(m.g2)

\* C7: a timed segment's duration is minutes*60+seconds of the directive that
\* most recently precedes its text, from the digits as written, without
\* range check.
C7_DurationAsWritten ==
    LET T == TextSpans(notes)
        M == Directives(notes)
    IN  (parsed /\ Len(segs) = Len(T)) =>
            \A k \in 1..Len(T) :
                T[k].tag > 0 =>
                    segs[k].duration_seconds = Some(WrittenDuration(M[T[k].tag]))

\* C8: a segment carries a duration iff a directive occurs in the input
\* before the segment's text; text before the first directive is a segment
\* without duration, so only the first segment of a result can lack one.
\* (The fallback segment stands for the whole input: nothing precedes it.)
C8_DurationIffDirectiveBefore ==
    LET T == TextSpans(notes)
    IN  parsed =>
            /\ IF T = <<>>
               THEN \A k \in 1..Len(segs) : segs[k].duration_seconds = None
               ELSE /\ Len(segs) = Len(T)
                    /\ \A k \in 1..Len(T) :
                          segs[k].duration_seconds # None <=> T[k].tag > 0
            /\ \A k \in 2..Len(segs) : segs[k].duration_seconds # None

\* Text, a directive, text: the first segment untimed, the second timed.
C8_Witness ==
    /\ parsed
    /\ Len(segs) >= 2
    /\ segs[1].duration_seconds = None
    /\ segs[2].duration_seconds # None
    /\ TextSpans(notes)[1].to < Len(notes)

\* Two directives with nothing but whitespace between them.
Superseding(ns) ==
    LET M == Directives(ns)
    IN  \E t \in 1..(Len(M) - 1) : Blank(Slice(ns, M[t].end, M[t + 1].start))

\* The duration that applies to a span of text: that of the directive just
\* before it.
SpanDuration(ns, sp) ==
    IF sp.tag = 0 THEN None ELSE Some(Duration(Directives(ns)[sp.tag]))

\* The sum of the durations that apply to the first n spans of text.
RECURSIVE SpanStart(_, _, _)
SpanStart(ns, T, n) ==
    IF n = 0 THEN 0
    ELSE SpanStart(ns, T, n - 1)
           + (IF T[n].tag = 0 THEN 0 ELSE SpanDuration(ns, T[n])[1])

\* C9: when two directives are separated by whitespace only, no segment is
\* produced for the span between them, the later one is the pending duration
\* of the next text, and the earlier one's duration enters no segment, no
\* start time and not the total: "[time 00:10][time 00:20]Text" gives one
\* segment with duration 20 and start time 0.
C9_LaterDirectiveSupersedes ==
    LET T == TextSpans(notes)
    IN  (parsed /\ Superseding(notes)) =>
            /\ IF T = <<>>
               THEN /\ Len(segs) = 1
                    /\ segs[1].duration_seconds = None
                    /\ segs[1].start_time_seconds = 0
                    /\ content.total_duration_seconds = None
               ELSE /\ Len(segs) = Len(T)
                    /\ \A k \in 1..Len(T) :
                          /\ segs[k].duration_seconds = SpanDuration(notes, T[k])
                          /\ segs[k].start_time_seconds = SpanStart(notes, T, k - 1)
                    /\ content.total_duration_seconds # None =>
                          content.total_duration_seconds
                              = Some(SpanStart(notes, T, Len(T)))
            /\ notes = Tag10 \o Tag20 \o Text =>
                  segs = <<TeleprompterSegment(Text, Some(20), 0)>>

\* A timed section, then two directives with whitespace between them, then
\* text: the second segment starts when the first ends.
C9_Witness ==
    /\ parsed
    /\ Superseding(notes)
    /\ Len(Directives(notes)) = 3
    /\ Len(segs) = 2
    /\ segs[2].start_time_seconds = DurationOrZero(segs[1])
    /\ segs[2].start_time_seconds > 0
    /\ content.total_duration_seconds # None
    /\ Spans(notes)[3].from < Spans(notes)[3].to

\* A text holds a directive, a carriage return, or whitespace at an end.
Unclean(t) ==
    \/ HasDirective(t)
    \/ \E i \in 1..Len(t) : t[i] = "\r"
    \/ t # <<>> /\ (is_whitespace(t[1]) \/ is_whitespace(t[Len(t)]))

\* C10: the segment texts are, in source order, the non-blank spans of input
\* around the directive matches, each with CRLF and lone CR replaced by LF
\* and trimmed; hence no segment text holds a directive, a carriage return
\* or whitespace at an end.
C10_TextsAreTheCleanedSpans ==
    LET T == TextSpans(notes)
    IN  parsed =>
            /\ Len(segs) = Len(T)
            /\ \A k \in 1..Len(T) :
                  segs[k].text = Trimmed(Normalised(SpanText(notes, T[k])))
            /\ \A k \in 1..Len(segs) : ~Unclean(segs[k].text)

\* C11: every segment of every parse result has non-empty text, also for an
\* input made of directives only.
C11_SegmentTextNonEmpty ==
    parsed => \A k \in 1..Len(segs) : segs[k].text # <<>>

----------------------------------------------------------------------------
(* The directive grammar *)

\* sub is the token [time, whitespace, one or two digits, a colon, two
\* digits and a closing bracket; with single, the whitespace is one space.
DirectiveForm(sub, single) ==
    LET n == Len(sub)
    IN  /\ n >= 11
        /\ SubSeq(sub, 1, 5) = TimeToken
        /\ sub[n] = "]"
        /\ is_digit(sub[n - 1])
        /\ is_digit(sub[n - 2])
        /\ sub[n - 3] = ":"
        /\ \E nd \in {1, 2} :
              LET w == n - 9 - nd
              IN  /\ w >= 1
                  /\ single => (w = 1 /\ sub[6] = " ")
                  /\ \A i \in 6..(5 + w) : is_whitespace(sub[i])
                  /\ \A i \in (6 + w)..(5 + w + nd) : is_digit(sub[i])

\* The substrings of ns of that form, as <<start, end>> offsets.
FormSpans(ns, single) ==
    LET starts == {a \in 0..(Len(ns) - 1) : LiteralAt(ns, a, TimeToken)}
    IN  {ae \in starts \X (1..Len(ns)) :
            ae[1] < ae[2] /\ DirectiveForm(Slice(ns, ae[1], ae[2]), single)}

\* The number of non-whitespace characters of ns outside the given spans.
TextOutside(ns, spans) ==
    Cardinality({i \in 1..Len(ns) :
        /\ ~is_whitespace(ns[i])
        /\ \A ae \in spans : ~(ae[1] < i /\ i <= ae[2])})

RECURSIVE TextKept(_)
TextKept(ss) ==
    IF ss = <<>> THEN 0
    ELSE TextOutside(Head(ss).text, {}) + TextKept(Tail(ss))

\* The parser treats exactly the substrings of the given form as directives:
\* has_timing is set iff there is one, none is left in a segment text, and
\* every other non-whitespace character of the input is in a segment text.
TreatsAsDirective(single) ==
    LET F == FormSpans(notes, single)
    IN  /\ content.has_timing <=> F # {}
        /\ \A k \in 1..Len(segs) : FormSpans(segs[k].text, single) = {}
        /\ TextKept(segs) = TextOutside(notes, F)

\* C12 as stated: a substring is treated as a timing directive exactly when
\* it has the literal form [time MM:SS] (the token, a space, one or two
\* minute digits, a colon, two second digits, the closing bracket).
C12_DirectiveIsLiteralForm ==
    parsed => TreatsAsDirective(TRUE)

\* C12 as amended: a substring is treated as a timing directive exactly when
\* it is the lower-case token [time, one or more whitespace characters, one
\* or two decimal digits, a colon, two decimal digits and the closing
\* bracket; other text does not set has_timing and stays in the segments.
C12_DirectiveIsTokenWhitespaceDigits ==
    parsed => TreatsAsDirective(FALSE)

\* A tag with two spaces after the token was treated as a directive, in
\* notes with text that stayed.
C12_Witness ==
    /\ parsed
    /\ FormSpans(notes, FALSE) \ FormSpans(notes, TRUE) # {}
    /\ content.has_timing
    /\ TextKept(segs) > 0

\* The malformed tags replaced by a plain character.
Masked(s) ==
    replace(replace(replace(s, Malformed, <<"x">>), ThreeDigit, <<"x">>),
            UpperCase, <<"x">>)

\* C18: bracketed text with a wrong digit count or token ([time 1:2], three
\* minute digits, upper-case TIME) is not a directive: the result is that of
\* the same notes with a plain character in its place (same has_timing, same
\* durations, start times and total), and it is literally in the text of its
\* segment.
C18_MalformedTagIsText ==
    (parsed /\ Masked(notes) # notes) =>
        LET ref == parse_notes_to_segments(Masked(notes))
        IN  /\ content.has_timing = ref.has_timing
            /\ content.total_duration_seconds = ref.total_duration_seconds
            /\ Len(segs) = Len(ref.segments)
            /\ \A k \in 1..Len(segs) :
                  /\ segs[k].duration_seconds = ref.segments[k].duration_seconds
                  /\ segs[k].start_time_seconds = ref.segments[k].start_time_seconds
                  /\ Masked(segs[k].text) = ref.segments[k].text
            /\ \E k \in 1..Len(segs) : Masked(segs[k].text) # segs[k].text

\* Each kind of malformed tag inside timed segments.
C18_Witness ==
    /\ parsed
    /\ \E a \in 0..Len(notes) : LiteralAt(notes, a, Malformed)
    /\ \E a \in 0..Len(notes) : LiteralAt(notes, a, ThreeDigit)
    /\ \E a \in 0..Len(notes) : LiteralAt(notes, a, UpperCase)
    /\ content.has_timing
    /\ \E k \in 1..Len(segs) :
          /\ segs[k].duration_seconds # None
          /\ Masked(segs[k].text) # segs[k].text

----------------------------------------------------------------------------
(* Totality *)

\* C13: parse_notes_to_segments returns a result for every input and never
\* panics, and parse_teleprompter_content returns Ok with that result;
\* malformed directives are not errors.
C13_ParseNeverPanics ==
    pc # "panicked"

\* Notes with a malformed tag and a tag whose digits parse::<u32> cannot
\* read have been parsed.
C13_Witness ==
    /\ parsed
    /\ Masked(notes) # notes
    /\ \E i \in 1..Len(notes) : notes[i] \in NonAsciiDigit
    /\ content.has_timing
    /\ segs # <<>>

----------------------------------------------------------------------------
(* Properties of format_notes_for_display *)

formatted_once == pc \in {"formatted", "reformatted"}

\* sub is a marker: the token [note, a whitespace character, at least one
\* more character, and the closing bracket, with no other "]" inside.
IsMarker(sub) ==
    LET n == Len(sub)
    IN  /\ n >= 8
        /\ SubSeq(sub, 1, 5) = NoteToken
        /\ is_whitespace(sub[6])
        /\ sub[n] = "]"
        /\ \A i \in 6..(n - 1) : sub[i] # "]"

\* The content of a marker: what follows the whitespace after the token (the
\* last whitespace character when nothing else follows).
RECURSIVE DropLeadingSpace(_)
DropLeadingSpace(s) ==
    IF Len(s) >= 2 /\ is_whitespace(s[1]) THEN DropLeadingSpace(Tail(s)) ELSE s

MarkerContent(sub) == DropLeadingSpace(SubSeq(sub, 7, Len(sub) - 1))

\* The markers of t, as <<start, end>> offsets.
MarkerSpans(t) ==
    LET starts == {a \in 0..(Len(t) - 1) : LiteralAt(t, a, NoteToken)}
    IN  {ae \in starts \X (1..Len(t)) :
            ae[1] < ae[2] /\ IsMarker(Slice(t, ae[1], ae[2]))}

\* t with its markers wrapped, one character or one marker at a time from
\* the left.
RECURSIVE Wrapped(_)
Wrapped(t) ==
    IF t = <<>> THEN <<>>
    ELSE LET ends == {e \in 8..Len(t) : IsMarker(SubSeq(t, 1, e))}
         IN  IF ends # {}
             THEN LET e == CHOOSE x \in ends : TRUE
                  IN  <<"<", "n", "o", "t", "e", ">">>
                        \o MarkerContent(SubSeq(t, 1, e))
                        \o <<"<", "/", "n", "o", "t", "e", ">">>
                        \o Wrapped(SubSeq(t, e + 1, Len(t)))
             ELSE <<t[1]>> \o Wrapped(Tail(t))

\* No marker holds the token [note again between its token and its bracket.
NoNestedMarker(t) ==
    \A ae \in MarkerSpans(t) :
        \A b \in (ae[1] + 1)..(ae[2] - 1) : ~LiteralAt(t, b, NoteToken)

\* C14: format_notes_for_display replaces every [note <content>] marker
\* (content a non-empty run of characters other than "]") by
\* <note>content</note>, left to right without overlap, and passes all other
\* text through unchanged; the example of the test gives the expected text.
C14_MarkersAreWrapped ==
    formatted_once =>
        /\ formatted = Wrapped(raw_text)
        /\ raw_text = Example => formatted = ExampleFormatted
        /\ MarkerSpans(raw_text) = {} => formatted = raw_text

\* Text around two markers, both wrapped.
C14_Witness ==
    /\ formatted_once
    /\ Cardinality(MarkerSpans(raw_text)) >= 3
    /\ NoNestedMarker(raw_text)
    /\ Len(formatted) = Len(raw_text) + 3 * 6

\* C19 as stated: formatting the output again changes nothing, for every
\* text: no marker is left after one pass.
C19_FormatIsIdempotent ==
    /\ formatted_once => MarkerSpans(formatted) = {}
    /\ pc = "reformatted" => reformatted = formatted

\* C19 as amended: for every text in which no marker holds the token [note
\* inside it, no marker is left after one pass and formatting the output
\* again changes nothing.
C19_FormatIsIdempotentUnlessNested ==
    NoNestedMarker(raw_text) =>
        /\ formatted_once => MarkerSpans(formatted) = {}
        /\ pc = "reformatted" => reformatted = formatted

\* A text with markers, none nested, formatted twice.
C19_Witness ==
    /\ pc = "reformatted"
    /\ NoNestedMarker(raw_text)
    /\ Cardinality(MarkerSpans(raw_text)) >= 2
    /\ formatted # raw_text
    /\ reformatted = formatted

\* sub is a marker without content: the token, whitespace or nothing, and
\* the closing bracket.
IsEmptyMarker(sub) ==
    LET n == Len(sub)
    IN  /\ n >= 6
        /\ SubSeq(sub, 1, 5) = NoteToken
        /\ sub[n] = "]"
        /\ \A i \in 6..(n - 1) : is_whitespace(sub[i])

\* s holds the literal lit somewhere.
Contains(s, lit) == \E a \in 0..Len(s) : LiteralAt(s, a, lit)

\* C20: a marker without content ([note], or [note ] with only the
\* separating whitespace) does not match and is left unchanged (stated for
\* the first token of the text, which no earlier marker can swallow), and
\* every wrapper that is inserted encloses at least one character.
C20_EmptyMarkerUnchanged ==
    formatted_once =>
        /\ \A a \in 0..Len(raw_text), e \in 0..Len(raw_text) :
              ( /\ a < e
                /\ IsEmptyMarker(Slice(raw_text, a, e))
                /\ \A b \in 0..(a - 1) : ~LiteralAt(raw_text, b, NoteToken) )
              => /\ Len(formatted) >= e
                 /\ SubSeq(formatted, 1, e) = SubSeq(raw_text, 1, e)
        /\ ~Contains(formatted, NoteWrapper(<<>>))

----------------------------------------------------------------------------
(* Properties of calculate_scroll_speed *)

\* x == y on f32: the same finite number (a zero equals a zero of either
\* sign).
SameNumber(x, y) ==
    /\ x.kind = "finite" /\ y.kind = "finite"
    /\ x.m = y.m /\ x.e = y.e
    /\ (x.neg = y.neg \/ x.m = 0)

\* x is a number of f32: zero, or an odd significand below 2^24 with an
\* exponent from that of the subnormal numbers upwards, below infinity.
IsFiniteF32(x) ==
    /\ x.kind = "finite"
    /\ \/ x.m = 0 /\ x.e = 0
       \/ /\ x.m % 2 = 1
          /\ x.m < SignificandLimit
          /\ x.e >= MinExponent
          /\ x.e <= MaxExponent

\* C15: with a duration that is present and greater than zero the result is
\* segment_height divided by the duration as f32 divides (the exact quotient
\* where the duration divides the height's significand); with no duration or
\* a duration of zero it is default_speed unchanged; nothing is ever divided
\* by zero, so the result is a finite f32.
C15_ScrollSpeed ==
    call.made =>
        LET d == call.duration_seconds
            h == call.segment_height
        IN  /\ IsFiniteF32(call.result)
            /\ IF d # None /\ d[1] > 0
               THEN /\ call.result = Divide(h, F32(d[1], 1))
                    /\ (d[1] < SignificandLimit /\ h.m % d[1] = 0)
                        => SameNumber(call.result, Canonical(h.neg, h.m \div d[1], h.e))
               ELSE call.result = call.default_speed
            /\ ( /\ h = F32(300, 1)
                 /\ call.default_speed = F32(10, 1)
                 /\ d \in {Some(30), None, Some(0)} )
               => SameNumber(call.result, F32(10, 1))

\* A height that the duration does not divide evenly, a quotient that f32
\* has to round (1 / 7 is 9586981 * 2^-26 in f32), and a default speed that
\* differs from the quotient.
C15_Witness ==
    /\ call.made
    /\ call.segment_height = F32(1, 1)
    /\ call.duration_seconds = Some(7)
    /\ call.default_speed = F32(10, 1)
    /\ call.result = Finite(FALSE, 9586981, 0 - 26)

----------------------------------------------------------------------------
(* The sample and the fallback *)

Welcome == <<"W", "e", "l", "c", "o", "m", "e", "!">>

\* C16: the sample text gives exactly 3 segments: segment 0 has the text
\* "Welcome!" and no duration, segment 1 has duration 30 and start time 0,
\* segment 2 has duration 60 and start time 30; has_timing is true and
\* total_duration_seconds is absent.
C16_SampleParse ==
    (parsed /\ notes = Sample) =>
        /\ Len(segs) = 3
        /\ segs[1].text = Welcome
        /\ segs[1].duration_seconds = None
        /\ segs[2].duration_seconds = Some(30)
        /\ segs[2].start_time_seconds = 0
        /\ segs[3].duration_seconds = Some(60)
        /\ segs[3].start_time_seconds = 30
        /\ content.has_timing
        /\ content.total_duration_seconds = None

\* The whole sample has been typed and parsed.
C16_Witness ==
    /\ parsed
    /\ notes = Sample
    /\ Len(Directives(notes)) = 2
    /\ Len(segs) = 3

\* What the input holds outside its directives, in source order.
OutsideDirectives(ns) ==
    LET S == Spans(ns)
        join[k \in 0..Len(S)] ==
            IF k = 0 THEN <<>> ELSE join[k - 1] \o SpanText(ns, S[k])
    IN  join[Len(S)]

\* C17: an input of at least one directive and otherwise only whitespace
\* gives exactly one segment, which holds the cleaned whole input (what is
\* outside the directives, line ends normalised, trimmed), has no duration
\* and start time 0; has_timing is true and total_duration_seconds absent.
C17_DirectiveOnlyFallback ==
    (parsed /\ HasDirective(notes) /\ Blank(OutsideDirectives(notes))) =>
        /\ Len(segs) = 1
        /\ segs[1].text = Trimmed(Normalised(OutsideDirectives(notes)))
        /\ segs[1].duration_seconds = None
        /\ segs[1].start_time_seconds = 0
        /\ content.has_timing
        /\ content.total_duration_seconds = None

\* Two directives with a line end between them and nothing else.
C17_Witness ==
    /\ parsed
    /\ Len(Directives(notes)) = 2
    /\ OutsideDirectives(notes) \in {<<"\n">>, <<"\r">>}
    /\ Len(segs) = 1
    /\ segs[1].text = <<>>

----------------------------------------------------------------------------
(* Concurrent callers of the three core functions *)

\* The teleprompter variables at rest, for the specifications of the
\* applications.
TeleIdle ==
    /\ notes = <<>>
    /\ edits = 0
    /\ content = NoContent
    /\ pc = "input"
    /\ raw_text = <<>>
    /\ formatted = <<>>
    /\ reformatted = <<>>
    /\ call = NoCall

\* The threads that call the core functions.
Callers == {1, 2}

\* The arguments they call them with.
CoreNotes ==
    {<<>>, Text, Tag10 \o Text, Text \o Tag10 \o Text \o Tag20 \o NoteTag,
     Tag10 \o Tag20 \o Text}

CoreTexts == {Text, Example, NoteTag \o NoteTag, NoteToken \o <<" ", "]">>}

CoreSpeeds ==
    {[segment_height |-> F32(300, 1), duration_seconds |-> d,
      default_speed |-> F32(10, 1)] : d \in {None, Some(0), Some(7), Some(30)}}

\* A caller between two calls.
NotCalling == [op |-> "none", pc |-> "idle", input |-> <<>>, st |-> <<>>, out |-> <<>>]

InitCore ==
    /\ TeleIdle
    /\ tasks = [c \in Callers |-> NotCalling]
    /\ now = 0
    /\ FIREBASE_TOKENS = <<>>
    /\ SLIDES_TOKENS = <<>>
    /\ PENDING_OAUTH_SCOPE = <<>>
    /\ store = <<>>
    /\ CURRENT_SLIDE = <<>>
    /\ SLIDE_NOTES = <<>>
    /\ CURRENT_PRESENTATION_ID = <<>>
    /\ emitted = <<>>

\* Everything but the callers' own frames.
CoreRest ==
    <<teleVars, now, FIREBASE_TOKENS, SLIDES_TOKENS, PENDING_OAUTH_SCOPE, store,
      CURRENT_SLIDE, SLIDE_NOTES, CURRENT_PRESENTATION_ID, emitted>>

\* Caller c enters parse_notes_to_segments(ns): the locals of lines 46-52.
CallParse(c, ns) ==
    /\ tasks[c].pc = "idle"
    /\ tasks' = [tasks EXCEPT ![c] =
            [op |-> "parse", pc |-> "loop", input |-> ns, st |-> ParseStart,
             out |-> <<>>]]
    /\ UNCHANGED CoreRest

\* The steps from the locals before to the locals after panic: an unwrap or
\* a slice does, or a u32 sum overflows for the first time in this call in a
\* build with overflow checks (a call that has gone on after an overflow
\* runs in a build without them).
StepPanics(before, after, sum_overflows) ==
    \/ after.panicked
    \/ ~before.overflowed /\ (after.overflowed \/ sum_overflows)

\* Mutant: the parser state is a static shared by the callers.
ParseIter_StaticState(c) ==
    /\ tasks[c].op = "parse"
    /\ tasks[c].pc = "loop"
    /\ LET ns == tasks[c].input
           users == {d \in Callers : tasks[d].op = "parse" /\ tasks[d].pc = "loop"}
           st == tasks[CHOOSE d \in users : \A e \in users : d <= e].st
           cap == NextTimeMatch(ns, st.last_end)
       IN  tasks' = [tasks EXCEPT ![c] =
               IF cap.ok /\ cap.start >= st.last_end
               THEN [@ EXCEPT !.st = LoopBody(ns, st, cap)]
               ELSE [@ EXCEPT !.pc = "rest"]]
    /\ UNCHANGED CoreRest

\* One iteration of the loop over the matches, or its end.  When it panics
\* the caller's thread unwinds and the call does not return.
ParseIter(c) ==
    /\ tasks[c].op = "parse"
    /\ tasks[c].pc = "loop"
    /\ LET ns == tasks[c].input
           st == tasks[c].st
           cap == NextTimeMatch(ns, st.last_end)
           after == LoopBody(ns, st, cap)
       IN  \/ /\ cap.ok
              /\ StepPanics(st, after, FALSE)
              /\ tasks' = [tasks EXCEPT ![c].pc = "panicked"]
           \/ /\ cap.ok
              /\ ~after.panicked
              /\ tasks' = [tasks EXCEPT ![c].st = after]
           \/ /\ ~cap.ok
              /\ tasks' = [tasks EXCEPT ![c].pc = "rest"]
    /\ UNCHANGED CoreRest

\* The remaining text, the fallback, the total, and the value returned, or
\* a panic.
ParseFinish(c) ==
    /\ tasks[c].op = "parse"
    /\ tasks[c].pc = "rest"
    /\ \E st \in {Fallback(tasks[c].input, Remaining(tasks[c].input, tasks[c].st))} :
          \E sum_overflows \in {TotalDuration(st) # None /\ SumOverflows(st.segments, 0)} :
              \/ /\ StepPanics(tasks[c].st, st, sum_overflows)
                 /\ tasks' = [tasks EXCEPT ![c].pc = "panicked"]
              \/ /\ ~st.panicked
                 /\ tasks' = [tasks EXCEPT ![c] =
                       [@ EXCEPT !.pc = "done", !.out = Returned(st)]]
    /\ UNCHANGED CoreRest

\* Caller c enters format_notes_for_display(s): the replacement starts at
\* offset 0 with an empty result.
CallFormat(c, s) ==
    /\ tasks[c].pc = "idle"
    /\ tasks' = [tasks EXCEPT ![c] =
            [op |-> "format", pc |-> "loop", input |-> s,
             st |-> [last_end |-> 0, new |-> <<>>], out |-> <<>>]]
    /\ UNCHANGED CoreRest

\* replace_all: one match replaced, or the rest of the text copied.
FormatIter(c) ==
    /\ tasks[c].op = "format"
    /\ tasks[c].pc = "loop"
    /\ LET s == tasks[c].input
           st == tasks[c].st
           m == NextNoteMatch(s, st.last_end)
       IN  tasks' = [tasks EXCEPT ![c] =
               IF m.ok
               THEN [@ EXCEPT !.st =
                        [last_end |-> m.end,
                         new |-> st.new \o Slice(s, st.last_end, m.start)
                                        \o NoteWrapper(m.g1)]]
               ELSE [@ EXCEPT !.pc = "done",
                              !.out = st.new \o Slice(s, st.last_end, Len(s))]]
    /\ UNCHANGED CoreRest

\* Caller c calls calculate_scroll_speed, which is a single expression.
CallScroll(c, a) ==
    /\ tasks[c].pc = "idle"
    /\ tasks' = [tasks EXCEPT ![c] =
            [op |-> "scroll", pc |-> "done", input |-> a, st |-> <<>>,
             out |-> calculate_scroll_speed(a.segment_height,
                                            a.duration_seconds,
                                            a.default_speed)]]
    /\ UNCHANGED CoreRest

\* The call returns to the caller.
CoreReturn(c) ==
    /\ tasks[c].pc = "done"
    /\ tasks' = [tasks EXCEPT ![c] = NotCalling]
    /\ UNCHANGED CoreRest

NextCore ==
    \E c \in Callers :
        \/ \E ns \in CoreNotes : CallParse(c, ns)
        \/ ParseIter(c)
        \/ ParseFinish(c)
        \/ \E s \in CoreTexts : CallFormat(c, s)
        \/ FormatIter(c)
        \/ \E a \in CoreSpeeds : CallScroll(c, a)
        \/ CoreReturn(c)

SpecCore == InitCore /\ [][NextCore]_vars

\* What the call of caller c gives when run alone on its input.
RunAlone(c) ==
    LET t == tasks[c]
    IN  CASE t.op = "parse" -> parse_notes_to_segments(t.input)
          [] t.op = "format" -> format_notes_for_display(t.input)
          [] t.op = "scroll" ->
                calculate_scroll_speed(t.input.segment_height,
                                       t.input.duration_seconds,
                                       t.input.default_speed)

\* C21: under any interleaving of concurrent calls of the three core
\* functions, each call returns what it returns when run alone on its input.
C21_CallsDoNotInterfere ==
    \A c \in Callers : tasks[c].pc = "done" => tasks[c].out = RunAlone(c)

\* One parse has finished with three segments while another caller's parse
\* of different notes is inside its loop, one tag behind it.
C21_Witness ==
    /\ tasks[1].op = "parse" /\ tasks[1].pc = "done"
    /\ Len(tasks[1].out.segments) = 3
    /\ tasks[2].op = "parse" /\ tasks[2].pc = "loop"
    /\ tasks[2].input # tasks[1].input
    /\ tasks[2].st.last_end > 0

----------------------------------------------------------------------------
(* cuecard-app: the tokens, login and logout *)
(*                                                                         *)
(* FIREBASE_CONFIG, OAUTH_CREDENTIALS and APP_HANDLE are set (setup has    *)
(* run and a login has fetched the credentials).  A task is a command      *)
(* invocation or a request handler; it runs up to its next await or lock   *)
(* in one step.  A token string is "login" when a login issued it and     *)
(* "refreshed" when a refresh did.  Of FirebaseTokens the fields that no   *)
(* step here reads or tells apart (refresh_token, email, local_id,         *)
(* display_name) are left out.                                             *)

\* now >= expires_at - 300
ExpiryMargin == 300

\* expires_in of a token response (unwrap_or(3600) when it does not parse)
DefaultExpiresIn == 3600

\* The clock jumps to the moment a token issued now has to be refreshed.
TickStep == DefaultExpiresIn - ExpiryMargin

MaxTicks == 2

Tasks == {1, 2}

Scopes == {"profile", "slides"}

Idle ==
    [op |-> "none", pc |-> "idle", caller |-> "none", scope |-> "",
     pending_scope |-> None,
     google_tokens |-> <<>>, token |-> "", expires_at |-> None, at |-> 0,
     held |-> FALSE, is_expired |-> FALSE, has_refresh |-> FALSE,
     response |-> <<>>, refreshed |-> FALSE, raced |-> FALSE,
     result |-> None]

NoStore == [firebase_tokens |-> None, slides_tokens |-> None]

\* The tokens load_tokens_from_store finds at startup: none, or those of
\* an earlier login at time 0.
StoredFirebaseTokens ==
    {None, Some([id_token |-> "login", expires_at |-> DefaultExpiresIn])}

StoredSlidesTokens ==
    {None} \cup
    {Some([access_token |-> "login", refresh_token |-> r, expires_at |-> e]) :
        r \in {None, Some("r")}, e \in {None, Some(DefaultExpiresIn)}}

\* After setup: the tokens in memory are those of the store.
InitTokens ==
    /\ TeleIdle
    /\ tasks = [t \in Tasks |-> Idle]
    /\ now = 0
    /\ FIREBASE_TOKENS \in StoredFirebaseTokens
    /\ SLIDES_TOKENS \in StoredSlidesTokens
    /\ PENDING_OAUTH_SCOPE = None
    /\ store = [firebase_tokens |-> FIREBASE_TOKENS, slides_tokens |-> SLIDES_TOKENS]
    /\ CURRENT_SLIDE = <<>>
    /\ SLIDE_NOTES = <<>>
    /\ CURRENT_PRESENTATION_ID = <<>>
    /\ emitted = <<>>

\* What the token steps leave alone.
SlideVars == <<CURRENT_SLIDE, SLIDE_NOTES, CURRENT_PRESENTATION_ID, emitted>>

Tick ==
    /\ now < MaxTicks * TickStep
    /\ now' = now + TickStep
    /\ UNCHANGED <<teleVars, tasks, FIREBASE_TOKENS, SLIDES_TOKENS,
                   PENDING_OAUTH_SCOPE, store, SlideVars>>

\* History: task t writes FIREBASE_TOKENS; the get_valid_firebase_token
\* calls of other tasks that are past their first read have been raced.
RacedBy(t) ==
    [u \in Tasks |->
        IF u # t /\ tasks[u].op = "get_valid_firebase_token"
        THEN [tasks[u] EXCEPT !.raced = TRUE]
        ELSE tasks[u]]

\* Mutant: > for >=.
IsExpired_Strict(t, exp) == t > exp - ExpiryMargin

\* "Check if token is expired or about to expire (within 5 minutes)":
\* at time t, for tokens that expire at exp.
IsExpired(t, exp) == t >= exp - ExpiryMargin

\* get_valid_firebase_token up to its await: the tokens are read, the
\* stored ID token is returned unless it is about to expire.
get_valid_firebase_token(t) ==
    /\ tasks[t].pc = "idle"
    /\ LET call0 == [Idle EXCEPT !.op = "get_valid_firebase_token", !.at = now]
       IN  tasks' = [tasks EXCEPT ![t] =
             IF FIREBASE_TOKENS = None
             THEN [call0 EXCEPT !.pc = "done", !.result = None]
             ELSE LET tk == FIREBASE_TOKENS[1]
                      read == [call0 EXCEPT !.held = TRUE,
                                            !.token = tk.id_token,
                                            !.expires_at = Some(tk.expires_at),
                                            !.is_expired = IsExpired(now, tk.expires_at)]
                  IN  IF read.is_expired
                      THEN [read EXCEPT !.pc = "refresh_read"]
                      ELSE [read EXCEPT !.pc = "done", !.result = Some(tk.id_token)]]
    /\ UNCHANGED <<teleVars, now, FIREBASE_TOKENS, SLIDES_TOKENS,
                   PENDING_OAUTH_SCOPE, store, SlideVars>>

\* refresh_firebase_token, the refresh token is read: none, and the refresh
\* fails.
RefreshFirebase_Read(t) ==
    /\ tasks[t].op = "get_valid_firebase_token"
    /\ tasks[t].pc = "refresh_read"
    /\ tasks' = [tasks EXCEPT ![t] =
          IF FIREBASE_TOKENS = None
          THEN [@ EXCEPT !.pc = "done", !.result = None]
          ELSE [@ EXCEPT !.pc = "http"]]
    /\ UNCHANGED <<teleVars, now, FIREBASE_TOKENS, SLIDES_TOKENS,
                   PENDING_OAUTH_SCOPE, store, SlideVars>>

\* The answer of the token endpoint: an error, or a new ID token.
RefreshFirebase_Response(t, ok) ==
    /\ tasks[t].op = "get_valid_firebase_token"
    /\ tasks[t].pc = "http"
    /\ tasks' = [tasks EXCEPT ![t] =
          IF ok
          THEN [@ EXCEPT !.pc = "update",
                         !.response = [id_token |-> "refreshed",
                                       expires_at |-> now + DefaultExpiresIn]]
          ELSE [@ EXCEPT !.pc = "done", !.result = None]]
    /\ UNCHANGED <<teleVars, now, FIREBASE_TOKENS, SLIDES_TOKENS,
                   PENDING_OAUTH_SCOPE, store, SlideVars>>

\* Mutant: the tokens are set whether or not any are held.
RefreshFirebase_Update_Unguarded(t) ==
    /\ tasks[t].op = "get_valid_firebase_token"
    /\ tasks[t].pc = "update"
    /\ FIREBASE_TOKENS' = Some(tasks[t].response)
    /\ tasks' = [RacedBy(t) EXCEPT ![t] = [@ EXCEPT !.pc = "save"]]
    /\ UNCHANGED <<teleVars, now, SLIDES_TOKENS, PENDING_OAUTH_SCOPE, store,
                   SlideVars>>

\* "Update tokens": only tokens that are held are updated.
RefreshFirebase_Update(t) ==
    /\ tasks[t].op = "get_valid_firebase_token"
    /\ tasks[t].pc = "update"
    /\ FIREBASE_TOKENS' =
          IF FIREBASE_TOKENS = None THEN None ELSE Some(tasks[t].response)
    /\ tasks' = [RacedBy(t) EXCEPT ![t] = [@ EXCEPT !.pc = "save"]]
    /\ UNCHANGED <<teleVars, now, SLIDES_TOKENS, PENDING_OAUTH_SCOPE, store,
                   SlideVars>>

\* save_firebase_tokens_to_store: under the read lock, tokens that are held
\* are written to the store.
save_firebase_tokens_to_store ==
    IF FIREBASE_TOKENS = None THEN store
    ELSE [store EXCEPT !.firebase_tokens = FIREBASE_TOKENS]

RefreshFirebase_Save(t) ==
    /\ tasks[t].op = "get_valid_firebase_token"
    /\ tasks[t].pc = "save"
    /\ store' = save_firebase_tokens_to_store
    /\ tasks' = [tasks EXCEPT ![t] = [@ EXCEPT !.pc = "reread", !.refreshed = TRUE]]
    /\ UNCHANGED <<teleVars, now, FIREBASE_TOKENS, SLIDES_TOKENS,
                   PENDING_OAUTH_SCOPE, SlideVars>>

\* "Return the new token": the ID token held now, if any.
GetFirebase_Return(t) ==
    /\ tasks[t].op = "get_valid_firebase_token"
    /\ tasks[t].pc = "reread"
    /\ tasks' = [tasks EXCEPT ![t] =
          [@ EXCEPT !.pc = "done",
                    !.result = IF FIREBASE_TOKENS = None THEN None
                               ELSE Some(FIREBASE_TOKENS[1].id_token)]]
    /\ UNCHANGED <<teleVars, now, FIREBASE_TOKENS, SLIDES_TOKENS,
                   PENDING_OAUTH_SCOPE, store, SlideVars>>

\* get_valid_slides_token, called by the task at from, up to its await: the
\* stored access token is returned unless it is about to expire and a
\* refresh token is held.
get_valid_slides_token(t, from) ==
    /\ tasks[t].pc = from
    /\ LET call0 == [tasks[t] EXCEPT
                        !.caller = tasks[t].op,
                        !.op = "get_valid_slides_token", !.at = now,
                        !.held = FALSE, !.token = "", !.expires_at = None,
                        !.has_refresh = FALSE, !.is_expired = FALSE,
                        !.response = <<>>, !.refreshed = FALSE,
                        !.result = None]
       IN  tasks' = [tasks EXCEPT ![t] =
             IF SLIDES_TOKENS = None
             THEN [call0 EXCEPT !.pc = "done", !.result = None]
             ELSE LET tk == SLIDES_TOKENS[1]
                      read == [call0 EXCEPT
                                 !.held = TRUE,
                                 !.token = tk.access_token,
                                 !.expires_at = tk.expires_at,
                                 !.has_refresh = is_some(tk.refresh_token),
                                 !.is_expired =
                                     IF tk.expires_at = None THEN FALSE
                                     ELSE IsExpired(now, tk.expires_at[1])]
                  IN  IF read.is_expired /\ read.has_refresh
                      THEN [read EXCEPT !.pc = "refresh_read"]
                      ELSE [read EXCEPT !.pc = "done",
                                        !.result = Some(tk.access_token)]]
    /\ UNCHANGED <<teleVars, now, FIREBASE_TOKENS, SLIDES_TOKENS,
                   PENDING_OAUTH_SCOPE, store, SlideVars>>

\* refresh_slides_token, the refresh token is read: no tokens or no refresh
\* token, and the refresh fails.
RefreshSlides_Read(t) ==
    /\ tasks[t].op = "get_valid_slides_token"
    /\ tasks[t].pc = "refresh_read"
    /\ tasks' = [tasks EXCEPT ![t] =
          IF SLIDES_TOKENS = None \/ SLIDES_TOKENS[1].refresh_token = None
          THEN [@ EXCEPT !.pc = "done", !.result = None]
          ELSE [@ EXCEPT !.pc = "http"]]
    /\ UNCHANGED <<teleVars, now, FIREBASE_TOKENS, SLIDES_TOKENS,
                   PENDING_OAUTH_SCOPE, store, SlideVars>>

\* The answer of Google's token endpoint: an error, or a new access token,
\* with or without a new refresh token and an expires_in.
SlidesRefreshResponses ==
    {[ok |-> FALSE]} \cup
    {[ok |-> TRUE, access_token |-> "refreshed", refresh_token |-> r,
      expires_in |-> e] :
        r \in {None, Some("r")}, e \in {None, Some(DefaultExpiresIn)}}

RefreshSlides_Response(t, resp) ==
    /\ tasks[t].op = "get_valid_slides_token"
    /\ tasks[t].pc = "http"
    /\ tasks' = [tasks EXCEPT ![t] =
          IF resp.ok
          THEN [@ EXCEPT !.pc = "update", !.response = resp]
          ELSE [@ EXCEPT !.pc = "done", !.result = None]]
    /\ UNCHANGED <<teleVars, now, FIREBASE_TOKENS, SLIDES_TOKENS,
                   PENDING_OAUTH_SCOPE, store, SlideVars>>

\* now + expires_in, if the response has one.
ExpiresAt(expires_in) ==
    IF expires_in = None THEN None ELSE Some(now + expires_in[1])

\* "Update tokens": only tokens that are held are updated; the refresh token
\* is kept when the response has none.
RefreshSlides_Update(t) ==
    /\ tasks[t].op = "get_valid_slides_token"
    /\ tasks[t].pc = "update"
    /\ LET resp == tasks[t].response
       IN  SLIDES_TOKENS' =
              IF SLIDES_TOKENS = None THEN None
              ELSE Some([access_token |-> resp.access_token,
                         refresh_token |->
                             IF is_some(resp.refresh_token)
                             THEN resp.refresh_token
                             ELSE SLIDES_TOKENS[1].refresh_token,
                         expires_at |-> ExpiresAt(resp.expires_in)])
    /\ tasks' = [tasks EXCEPT ![t] = [@ EXCEPT !.pc = "save"]]
    /\ UNCHANGED <<teleVars, now, FIREBASE_TOKENS, PENDING_OAUTH_SCOPE, store,
                   SlideVars>>

save_slides_tokens_to_store ==
    IF SLIDES_TOKENS = None THEN store
    ELSE [store EXCEPT !.slides_tokens = SLIDES_TOKENS]

RefreshSlides_Save(t) ==
    /\ tasks[t].op = "get_valid_slides_token"
    /\ tasks[t].pc = "save"
    /\ store' = save_slides_tokens_to_store
    /\ tasks' = [tasks EXCEPT ![t] = [@ EXCEPT !.pc = "reread", !.refreshed = TRUE]]
    /\ UNCHANGED <<teleVars, now, FIREBASE_TOKENS, SLIDES_TOKENS,
                   PENDING_OAUTH_SCOPE, SlideVars>>

\* "Return the new token": the access token held now, if any.
GetSlides_Return(t) ==
    /\ tasks[t].op = "get_valid_slides_token"
    /\ tasks[t].pc = "reread"
    /\ tasks' = [tasks EXCEPT ![t] =
          [@ EXCEPT !.pc = "done",
                    !.result = IF SLIDES_TOKENS = None THEN None
                               ELSE Some(SLIDES_TOKENS[1].access_token)]]
    /\ UNCHANGED <<teleVars, now, FIREBASE_TOKENS, SLIDES_TOKENS,
                   PENDING_OAUTH_SCOPE, store, SlideVars>>

\* logout (the command) and logout_handler (POST /oauth/logout) clear the
\* Firebase tokens, then the Slides tokens, then the store.
Logout_ClearFirebase(t, op) ==
    /\ tasks[t].pc = "idle"
    /\ FIREBASE_TOKENS' = None
    /\ tasks' = [RacedBy(t) EXCEPT ![t] = [Idle EXCEPT !.op = op, !.pc = "clear_slides"]]
    /\ UNCHANGED <<teleVars, now, SLIDES_TOKENS, PENDING_OAUTH_SCOPE, store,
                   SlideVars>>

Logout_ClearSlides(t) ==
    /\ tasks[t].pc = "clear_slides"
    /\ SLIDES_TOKENS' = None
    /\ tasks' = [tasks EXCEPT ![t] = [@ EXCEPT !.pc = "clear_store"]]
    /\ UNCHANGED <<teleVars, now, FIREBASE_TOKENS, PENDING_OAUTH_SCOPE, store,
                   SlideVars>>

\* clear_all_tokens_from_store
Logout_ClearStore(t) ==
    /\ tasks[t].pc = "clear_store"
    /\ store' = NoStore
    /\ tasks' = [tasks EXCEPT ![t] = [@ EXCEPT !.pc = "done"]]
    /\ UNCHANGED <<teleVars, now, FIREBASE_TOKENS, SLIDES_TOKENS,
                   PENDING_OAUTH_SCOPE, SlideVars>>

\* start_login(scope): the pending scope is set and the browser is opened;
\* from then on the task stands for the login in the browser, which
\* remembers the scope it was started with.
start_login(t, scope) ==
    /\ tasks[t].pc = "idle"
    /\ PENDING_OAUTH_SCOPE' = Some(scope)
    /\ tasks' = [tasks EXCEPT ![t] =
          [Idle EXCEPT !.op = "browser", !.pc = "consent", !.scope = scope]]
    /\ UNCHANGED <<teleVars, now, FIREBASE_TOKENS, SLIDES_TOKENS, store, SlideVars>>

\* The user closes the browser window.
Browser_Abandon(t) ==
    /\ tasks[t].op = "browser"
    /\ tasks' = [tasks EXCEPT ![t] = Idle]
    /\ UNCHANGED <<teleVars, now, FIREBASE_TOKENS, SLIDES_TOKENS,
                   PENDING_OAUTH_SCOPE, store, SlideVars>>

\* The query of GET /oauth/callback.
CallbackParams ==
    {[code |-> c, error |-> e] : c \in {None, Some("code")},
                                 e \in {None, Some("access_denied")}}

\* oauth_callback_handler up to its await: an error or a missing code ends
\* it; otherwise the pending scope is taken.
oauth_callback_handler(t, params) ==
    /\ tasks[t].op = "browser"
    /\ IF is_some(params.error) \/ params.code = None
       THEN /\ tasks' = [tasks EXCEPT ![t] =
                   [@ EXCEPT !.op = "oauth_callback_handler", !.pc = "failed"]]
            /\ UNCHANGED PENDING_OAUTH_SCOPE
       ELSE /\ tasks' = [tasks EXCEPT ![t] =
                   [@ EXCEPT !.op = "oauth_callback_handler", !.pc = "exchange",
                             !.pending_scope = PENDING_OAUTH_SCOPE]]
            /\ PENDING_OAUTH_SCOPE' = None
    /\ UNCHANGED <<teleVars, now, FIREBASE_TOKENS, SLIDES_TOKENS, store, SlideVars>>

\* The answer of exchange_code_for_google_tokens: an error, or Google's
\* tokens, each optional field present or not.
GoogleTokenResponses ==
    {[ok |-> FALSE]} \cup
    {[ok |-> TRUE, access_token |-> "login", id_token |-> i,
      refresh_token |-> r, expires_in |-> e] :
        i \in {None, Some("google-id")}, r \in {None, Some("r")},
        e \in {None, Some(DefaultExpiresIn)}}

\* The code exchange returns: with the profile scope pending the Google ID
\* token goes on to Firebase, with any other the Slides tokens are stored.
Callback_Exchange(t, resp) ==
    /\ tasks[t].op = "oauth_callback_handler"
    /\ tasks[t].pc = "exchange"
    /\ tasks' = [tasks EXCEPT ![t] =
          IF ~resp.ok THEN [@ EXCEPT !.pc = "failed"]
          ELSE IF tasks[t].pending_scope = Some("profile")
               THEN IF resp.id_token = None
                    THEN [@ EXCEPT !.pc = "failed", !.google_tokens = resp]
                    ELSE [@ EXCEPT !.pc = "firebase_exchange", !.google_tokens = resp]
               ELSE [@ EXCEPT !.pc = "store_slides", !.google_tokens = resp]]
    /\ UNCHANGED <<teleVars, now, FIREBASE_TOKENS, SLIDES_TOKENS,
                   PENDING_OAUTH_SCOPE, store, SlideVars>>

\* exchange_google_token_for_firebase returns.
Callback_FirebaseExchange(t, ok) ==
    /\ tasks[t].op = "oauth_callback_handler"
    /\ tasks[t].pc = "firebase_exchange"
    /\ tasks' = [tasks EXCEPT ![t] =
          IF ok
          THEN [@ EXCEPT !.pc = "store_firebase",
                         !.response = [id_token |-> "login",
                                       expires_at |-> now + DefaultExpiresIn]]
          ELSE [@ EXCEPT !.pc = "failed"]]
    /\ UNCHANGED <<teleVars, now, FIREBASE_TOKENS, SLIDES_TOKENS,
                   PENDING_OAUTH_SCOPE, store, SlideVars>>

\* "Store Firebase tokens"
Callback_StoreFirebase(t) ==
    /\ tasks[t].op = "oauth_callback_handler"
    /\ tasks[t].pc = "store_firebase"
    /\ FIREBASE_TOKENS' = Some(tasks[t].response)
    /\ tasks' = [RacedBy(t) EXCEPT ![t] = [@ EXCEPT !.pc = "save_firebase"]]
    /\ UNCHANGED <<teleVars, now, SLIDES_TOKENS, PENDING_OAUTH_SCOPE, store,
                   SlideVars>>

Callback_SaveFirebase(t) ==
    /\ tasks[t].op = "oauth_callback_handler"
    /\ tasks[t].pc = "save_firebase"
    /\ store' = save_firebase_tokens_to_store
    /\ tasks' = [tasks EXCEPT ![t] = [@ EXCEPT !.pc = "succeeded"]]
    /\ UNCHANGED <<teleVars, now, FIREBASE_TOKENS, SLIDES_TOKENS,
                   PENDING_OAUTH_SCOPE, SlideVars>>

\* Mutant: the Slides tokens are dropped when the exchange gave no refresh
\* token.
Callback_StoreSlides_ClearWithoutRefresh(t) ==
    /\ tasks[t].op = "oauth_callback_handler"
    /\ tasks[t].pc = "store_slides"
    /\ LET g == tasks[t].google_tokens
       IN  IF g.refresh_token = None
           THEN /\ SLIDES_TOKENS' = None
                /\ tasks' = [tasks EXCEPT ![t] = [@ EXCEPT !.pc = "failed"]]
           ELSE /\ SLIDES_TOKENS' = Some([access_token |-> g.access_token,
                                          refresh_token |-> g.refresh_token,
                                          expires_at |-> ExpiresAt(g.expires_in)])
                /\ tasks' = [tasks EXCEPT ![t] = [@ EXCEPT !.pc = "save_slides"]]
    /\ UNCHANGED <<teleVars, now, FIREBASE_TOKENS, PENDING_OAUTH_SCOPE, store,
                   SlideVars>>

\* "For slides scope, store the access token for Slides API"
Callback_StoreSlides(t) ==
    /\ tasks[t].op = "oauth_callback_handler"
    /\ tasks[t].pc = "store_slides"
    /\ LET g == tasks[t].google_tokens
       IN  SLIDES_TOKENS' = Some([access_token |-> g.access_token,
                                  refresh_token |-> g.refresh_token,
                                  expires_at |-> ExpiresAt(g.expires_in)])
    /\ tasks' = [tasks EXCEPT ![t] = [@ EXCEPT !.pc = "save_slides"]]
    /\ UNCHANGED <<teleVars, now, FIREBASE_TOKENS, PENDING_OAUTH_SCOPE, store,
                   SlideVars>>

Callback_SaveSlides(t) ==
    /\ tasks[t].op = "oauth_callback_handler"
    /\ tasks[t].pc = "save_slides"
    /\ store' = save_slides_tokens_to_store
    /\ tasks' = [tasks EXCEPT ![t] = [@ EXCEPT !.pc = "succeeded"]]
    /\ UNCHANGED <<teleVars, now, FIREBASE_TOKENS, SLIDES_TOKENS,
                   PENDING_OAUTH_SCOPE, SlideVars>>

\* The command or handler returns; its result has been read.
Return(t) ==
    /\ tasks[t].pc \in {"done", "failed", "succeeded"}
    /\ tasks' = [tasks EXCEPT ![t] = Idle]
    /\ UNCHANGED <<teleVars, now, FIREBASE_TOKENS, SLIDES_TOKENS,
                   PENDING_OAUTH_SCOPE, store, SlideVars>>

\* The token getters, against logout.
NextTokens ==
    \/ Tick
    \/ \E t \in Tasks :
          \/ get_valid_firebase_token(t)
          \/ RefreshFirebase_Read(t)
          \/ \E ok \in BOOLEAN : RefreshFirebase_Response(t, ok)
          \/ RefreshFirebase_Update(t)
          \/ RefreshFirebase_Save(t)
          \/ GetFirebase_Return(t)
          \/ get_valid_slides_token(t, "idle")
          \/ RefreshSlides_Read(t)
          \/ \E resp \in SlidesRefreshResponses : RefreshSlides_Response(t, resp)
          \/ RefreshSlides_Update(t)
          \/ RefreshSlides_Save(t)
          \/ GetSlides_Return(t)
          \/ \E op \in {"logout", "logout_handler"} : Logout_ClearFirebase(t, op)
          \/ Logout_ClearSlides(t)
          \/ Logout_ClearStore(t)
          \/ Return(t)

SpecTokens == InitTokens /\ [][NextTokens]_vars

\* Logins and their callbacks.
NextLogin ==
    \E t \in Tasks :
        \/ \E scope \in Scopes : start_login(t, scope)
        \/ Browser_Abandon(t)
        \/ \E params \in CallbackParams : oauth_callback_handler(t, params)
        \/ \E resp \in GoogleTokenResponses : Callback_Exchange(t, resp)
        \/ \E ok \in BOOLEAN : Callback_FirebaseExchange(t, ok)
        \/ Callback_StoreFirebase(t)
        \/ Callback_SaveFirebase(t)
        \/ Callback_StoreSlides(t)
        \/ Callback_SaveSlides(t)
        \/ Return(t)

SpecLogin == InitTokens /\ [][NextLogin]_vars

----------------------------------------------------------------------------
(* Properties of the desktop tokens *)

\* The step is one of task t's own.
StepOf(t) == tasks'[t].pc # tasks[t].pc

\* The tokens the call read expire within ExpiryMargin seconds of the read,
\* or have expired.
NearExpiry(t) ==
    /\ tasks[t].held
    /\ tasks[t].expires_at # None
    /\ tasks[t].expires_at[1] - tasks[t].at <= ExpiryMargin

\* C22: get_valid_slides_token returns nothing or a valid access token: a
\* stored token that is expired or within 5 minutes of expiry is refreshed
\* before anything is returned.
C22_ExpiredSlidesTokenIsRefreshed ==
    \A t \in Tasks :
        ( /\ tasks[t].op = "get_valid_slides_token"
          /\ tasks[t].pc = "done"
          /\ tasks[t].result # None
          /\ NearExpiry(t) )
        => tasks[t].refreshed

\* A finished call of get_valid_firebase_token.
FirebaseCallDone(t) ==
    tasks[t].op = "get_valid_firebase_token" /\ tasks[t].pc = "done"

\* C23 as stated: nothing when no tokens are held; the stored ID token
\* unchanged when it is more than 300 seconds from expiry; otherwise the
\* refreshed token when the refresh succeeds and nothing when it fails.
C23_FirebaseTokenOrRefreshed ==
    \A t \in Tasks :
        FirebaseCallDone(t) =>
            /\ ~tasks[t].held => tasks[t].result = None
            /\ (tasks[t].held /\ ~NearExpiry(t)) =>
                    tasks[t].result = Some(tasks[t].token)
            /\ NearExpiry(t) =>
                    IF tasks[t].refreshed
                    THEN tasks[t].result = Some(tasks[t].response.id_token)
                    ELSE tasks[t].result = None

\* C23, amended: the same, but a successful refresh gives the refreshed
\* token only when no other task wrote FIREBASE_TOKENS while the call was
\* under way; after a logout in between the call returns nothing.
C23_FirebaseTokenOrRefreshedUnlessRaced ==
    \A t \in Tasks :
        FirebaseCallDone(t) =>
            /\ ~tasks[t].held => tasks[t].result = None
            /\ (tasks[t].held /\ ~NearExpiry(t)) =>
                    tasks[t].result = Some(tasks[t].token)
            /\ NearExpiry(t) =>
                    IF tasks[t].refreshed
                    THEN IF tasks[t].raced
                         THEN tasks[t].result \in {None, Some(tasks[t].response.id_token)}
                         ELSE tasks[t].result = Some(tasks[t].response.id_token)
                    ELSE tasks[t].result = None

\* The stored token was exactly 300 seconds from expiry, the refresh
\* succeeded undisturbed and its token was returned.
C23_Witness ==
    \E t \in Tasks :
        /\ FirebaseCallDone(t)
        /\ tasks[t].expires_at = Some(tasks[t].at + ExpiryMargin)
        /\ tasks[t].token = "login"
        /\ tasks[t].refreshed
        /\ ~tasks[t].raced
        /\ tasks[t].result = Some("refreshed")

\* C27: no step of a token refresh makes absent tokens present, in memory
\* or in the store: with FIREBASE_TOKENS (SLIDES_TOKENS) absent, the step
\* leaves it absent and leaves its key of the store as it is.
C27_RefreshKeepsAbsentTokensAbsent ==
    [][\A t \in Tasks :
          ( /\ StepOf(t)
            /\ tasks[t].op \in {"get_valid_firebase_token", "get_valid_slides_token"} )
          => /\ FIREBASE_TOKENS = None =>
                  /\ FIREBASE_TOKENS' = None
                  /\ store'.firebase_tokens = store.firebase_tokens
             /\ SLIDES_TOKENS = None =>
                  /\ SLIDES_TOKENS' = None
                  /\ store'.slides_tokens = store.slides_tokens]_vars

\* A refresh of the Firebase token got its answer, a logout then cleared
\* memory and store, and the refresh has gone through its update and save.
C27_Witness ==
    \E t \in Tasks :
        /\ tasks[t].op = "get_valid_firebase_token"
        /\ tasks[t].pc = "reread"
        /\ tasks[t].raced
        /\ FIREBASE_TOKENS = None
        /\ store = NoStore

----------------------------------------------------------------------------
(* Properties of the desktop login *)

CallbackPcsBeforeStore == {"consent", "exchange", "firebase_exchange"}

\* C28: a callback treats the tokens by the scope of the start_login that
\* opened its browser window: it takes that scope as the pending one, sets
\* FIREBASE_TOKENS only for "profile" and SLIDES_TOKENS only for another.
C28_CallbackFollowsItsLogin ==
    \A t \in Tasks :
        tasks[t].op = "oauth_callback_handler" =>
            /\ tasks[t].pc \in {"exchange", "firebase_exchange"} =>
                    tasks[t].pending_scope = Some(tasks[t].scope)
            /\ tasks[t].pc = "save_firebase" => tasks[t].scope = "profile"
            /\ tasks[t].pc = "save_slides" => tasks[t].scope # "profile"

\* C29: a callback that fails leaves the tokens, in memory and in the
\* store, as they were: every step on the way to a failure leaves them
\* unchanged, and no callback fails after it has stored something.
C29_FailedCallbackLeavesTokens ==
    [][\A t \in Tasks :
          ( /\ StepOf(t)
            /\ tasks[t].op \in {"browser", "oauth_callback_handler"} )
          => /\ tasks[t].pc \in CallbackPcsBeforeStore =>
                  UNCHANGED <<FIREBASE_TOKENS, SLIDES_TOKENS, store>>
             /\ tasks'[t].pc = "failed" =>
                  tasks[t].pc \in CallbackPcsBeforeStore]_vars

\* With tokens held and stored, a callback failed at the Firebase exchange.
C29_Witness ==
    \E t \in Tasks :
        /\ tasks[t].op = "oauth_callback_handler"
        /\ tasks[t].pc = "failed"
        /\ tasks[t].pending_scope = Some("profile")
        /\ tasks[t].google_tokens # <<>>
        /\ tasks[t].google_tokens.id_token # None
        /\ FIREBASE_TOKENS # None
        /\ SLIDES_TOKENS # None
        /\ store.firebase_tokens = FIREBASE_TOKENS
        /\ store.slides_tokens = SLIDES_TOKENS

----------------------------------------------------------------------------
(* cuecard-app: the current slide and the notes cache *)
(*                                                                         *)
(* The tasks are the /slides requests and refresh_notes commands under way *)
(* (Tasks) and the prefetch_all_notes tasks that /slides requests have     *)
(* spawned (Prefetchers).  A step is what a task does under one lock or up *)
(* to its next await.  fetch_slide_notes and prefetch_all_notes begin with *)
(* get_valid_slides_token, whose steps are those above.  Identifiers and   *)
(* cache keys are character sequences.                                     *)

PresentationA == <<"A">>

PresentationB == <<"B">>

\* The slides the browser extension reports.
SlideDatas ==
    {[presentation_id |-> PresentationA, slide_id |-> <<"1">>],
     [presentation_id |-> PresentationA, slide_id |-> <<"2">>],
     [presentation_id |-> PresentationB, slide_id |-> <<"1">>]}

\* format!("{}:{}", presentation_id, slide_id)
NotesKey(presentation_id, slide_id) == presentation_id \o <<":">> \o slide_id

\* k.starts_with(&format!("{}:", presentation_id))
starts_with(k, presentation_id) ==
    LET prefix == presentation_id \o <<":">>
    IN  Len(k) >= Len(prefix) /\ SubSeq(k, 1, Len(prefix)) = prefix

\* The speaker notes the Slides API has for a slide.
NotesText == "notes"

\* notes_cache.insert(key, text)
CacheInsert(cache, keys) ==
    [k \in DOMAIN cache \cup keys |-> IF k \in keys THEN NotesText ELSE cache[k]]

EmptyCache == [k \in {} |-> NotesText]

\* The number of spawned prefetch_all_notes tasks that can be under way at
\* one time.
MaxPrefetches == 2

\* The spawned tasks.
Prefetchers == (Cardinality(Tasks) + 1)..(Cardinality(Tasks) + MaxPrefetches)

SlideTasks == Tasks \cup Prefetchers

\* The number of /slides requests and refresh_notes commands that arrive.
MaxRequests == 2

SlideIdle ==
    [op |-> "none", pc |-> "idle", caller |-> "none", served |-> 0,
     slide_data |-> <<>>,
     presentation_id |-> <<>>, notes |-> None, token |-> "",
     expires_at |-> None, at |-> 0, held |-> FALSE, is_expired |-> FALSE,
     has_refresh |-> FALSE, response |-> <<>>, refreshed |-> FALSE,
     result |-> None]

\* The Slides tokens that load_tokens_from_store finds at startup: none, or
\* those of a login at time 0 or at time TickStep.
LoadedSlidesTokens ==
    {None} \cup
    {Some([access_token |-> "login", refresh_token |-> Some("r"),
           expires_at |-> Some(at + DefaultExpiresIn)]) : at \in {0, TickStep}}

\* After setup, at time TickStep: the access token of a login at time 0 is
\* about to expire.
InitSlides ==
    /\ TeleIdle
    /\ tasks = [t \in SlideTasks |-> SlideIdle]
    /\ now = TickStep
    /\ FIREBASE_TOKENS = None
    /\ SLIDES_TOKENS \in LoadedSlidesTokens
    /\ PENDING_OAUTH_SCOPE = None
    /\ store = [firebase_tokens |-> None, slides_tokens |-> SLIDES_TOKENS]
    /\ CURRENT_SLIDE = None
    /\ SLIDE_NOTES = EmptyCache
    /\ CURRENT_PRESENTATION_ID = None
    /\ emitted = None

\* What the slide steps leave alone.
TokenVars == <<now, FIREBASE_TOKENS, SLIDES_TOKENS, PENDING_OAUTH_SCOPE, store>>

\* get_valid_slides_token has returned to the function that called it: the
\* task is in that function again, at at_pc.
Resume(task, at_pc) ==
    [task EXCEPT !.op = task.caller, !.pc = at_pc, !.caller = "none",
                 !.token = "", !.expires_at = None, !.at = 0, !.held = FALSE,
                 !.is_expired = FALSE, !.has_refresh = FALSE,
                 !.response = <<>>, !.refreshed = FALSE, !.result = None]

\* The requests and commands that have arrived.
RECURSIVE Arrived(_)
Arrived(ts) ==
    IF ts = {} THEN 0
    ELSE LET t == CHOOSE u \in ts : TRUE
         IN  tasks[t].served + Arrived(ts \ {t})

\* A request or command that arrives is served by the first task that is
\* free.
Free(t) ==
    /\ t \in Tasks
    /\ tasks[t].pc = "idle"
    /\ \A u \in Tasks : tasks[u].pc = "idle" => t <= u
    /\ Arrived(Tasks) < MaxRequests

\* POST /slides arrives: "Check if presentation changed".
slides_handler(t, slide_data) ==
    /\ Free(t)
    /\ tasks' = [tasks EXCEPT ![t] =
          [SlideIdle EXCEPT
              !.op = "slides_handler",
              !.served = tasks[t].served + 1,
              !.pc = IF CURRENT_PRESENTATION_ID # Some(slide_data.presentation_id)
                     THEN "set_presentation" ELSE "set_slide",
              !.slide_data = slide_data]]
    /\ UNCHANGED <<teleVars, TokenVars, SlideVars>>

Slides_SetPresentation(t) ==
    /\ tasks[t].pc = "set_presentation"
    /\ CURRENT_PRESENTATION_ID' = Some(tasks[t].slide_data.presentation_id)
    /\ tasks' = [tasks EXCEPT ![t].pc = "clear"]
    /\ UNCHANGED <<teleVars, TokenVars, CURRENT_SLIDE, SLIDE_NOTES, emitted>>

\* notes_cache.clear(), and a prefetch_all_notes task is spawned for the
\* presentation, whether or not one is under way for it already.
Slides_ClearAndSpawn(t) ==
    /\ tasks[t].pc = "clear"
    /\ \E p \in Prefetchers :
          /\ tasks[p].pc = "idle"
          /\ \A q \in Prefetchers : tasks[q].pc = "idle" => p <= q
          /\ tasks' = [tasks EXCEPT
                ![t].pc = "set_slide",
                ![p] = [SlideIdle EXCEPT
                           !.op = "prefetch_all_notes",
                           !.pc = "prefetch",
                           !.presentation_id =
                               tasks[t].slide_data.presentation_id]]
    /\ SLIDE_NOTES' = EmptyCache
    /\ UNCHANGED <<teleVars, TokenVars, CURRENT_SLIDE, CURRENT_PRESENTATION_ID,
                   emitted>>

Slides_SetSlide(t) ==
    /\ tasks[t].pc = "set_slide"
    /\ CURRENT_SLIDE' = Some(tasks[t].slide_data)
    /\ tasks' = [tasks EXCEPT ![t].pc = "lookup"]
    /\ UNCHANGED <<teleVars, TokenVars, SLIDE_NOTES, CURRENT_PRESENTATION_ID,
                   emitted>>

\* notes_cache.get(&key): a hit, or fetch_slide_notes is called.
Slides_Lookup(t) ==
    /\ tasks[t].op = "slides_handler"
    /\ tasks[t].pc = "lookup"
    /\ LET sd == tasks[t].slide_data
           key == NotesKey(sd.presentation_id, sd.slide_id)
       IN  tasks' = [tasks EXCEPT ![t] =
              IF key \in DOMAIN SLIDE_NOTES
              THEN [@ EXCEPT !.pc = "emit", !.notes = Some(SLIDE_NOTES[key])]
              ELSE [@ EXCEPT !.pc = "fetch"]]
    /\ UNCHANGED <<teleVars, TokenVars, SlideVars>>

\* get_valid_slides_token has returned to fetch_slide_notes, which returns
\* in its turn: None without an access token; with one, what its request to
\* the Slides API gives, the notes, which are put in the cache, or None.
Slides_Fetched(t, found) ==
    /\ tasks[t].op = "get_valid_slides_token"
    /\ tasks[t].pc = "done"
    /\ tasks[t].caller = "slides_handler"
    /\ found => tasks[t].result # None
    /\ LET sd == tasks[t].slide_data
           key == NotesKey(sd.presentation_id, sd.slide_id)
       IN  IF found
           THEN /\ SLIDE_NOTES' = CacheInsert(SLIDE_NOTES, {key})
                /\ tasks' = [tasks EXCEPT ![t] =
                      [Resume(@, "emit") EXCEPT !.notes = Some(NotesText)]]
           ELSE /\ UNCHANGED SLIDE_NOTES
                /\ tasks' = [tasks EXCEPT ![t] = Resume(@, "emit")]
    /\ UNCHANGED <<teleVars, TokenVars, CURRENT_SLIDE, CURRENT_PRESENTATION_ID,
                   emitted>>

\* app.emit("slide-update", event), and the handler or command returns.
EmitSlideUpdate(t) ==
    /\ tasks[t].pc = "emit"
    /\ emitted' = Some([slide_data |-> tasks[t].slide_data,
                        notes |-> tasks[t].notes])
    /\ tasks' = [tasks EXCEPT ![t] = [SlideIdle EXCEPT !.served = tasks[t].served]]
    /\ UNCHANGED <<teleVars, TokenVars, CURRENT_SLIDE, SLIDE_NOTES,
                   CURRENT_PRESENTATION_ID>>

\* The keys of the slides of a presentation.
SlideKeys(presentation_id) ==
    {NotesKey(sd.presentation_id, sd.slide_id) :
        sd \in {d \in SlideDatas : d.presentation_id = presentation_id}}

\* The keys of all the slides.
AllSlideKeys == {NotesKey(sd.presentation_id, sd.slide_id) : sd \in SlideDatas}

\* The sets of keys prefetch_all_notes can insert: a key for each slide in
\* the answer of the Slides API that has an objectId and notes.
PrefetchedKeys(presentation_id) == SUBSET SlideKeys(presentation_id)

\* get_valid_slides_token has returned to a spawned prefetch_all_notes, which
\* finishes: with an error and nothing inserted (without an access token:
\* "Not authenticated for Slides"), or with the notes of the slides that
\* have notes put in the cache.
Prefetch_Finish(p, keys) ==
    /\ tasks[p].op = "get_valid_slides_token"
    /\ tasks[p].pc = "done"
    /\ tasks[p].caller = "prefetch_all_notes"
    /\ keys \in PrefetchedKeys(tasks[p].presentation_id)
    /\ keys # {} => tasks[p].result # None
    /\ tasks' = [tasks EXCEPT ![p] = SlideIdle]
    /\ SLIDE_NOTES' = CacheInsert(SLIDE_NOTES, keys)
    /\ UNCHANGED <<teleVars, TokenVars, CURRENT_SLIDE, CURRENT_PRESENTATION_ID,
                   emitted>>

\* refresh_notes reads the current slide ("No current slide" is an error).
refresh_notes(t) ==
    /\ Free(t)
    /\ CURRENT_SLIDE # None
    /\ tasks' = [tasks EXCEPT ![t] =
          [SlideIdle EXCEPT
              !.op = "refresh_notes", !.pc = "retain",
              !.served = tasks[t].served + 1,
              !.slide_data = CURRENT_SLIDE[1],
              !.presentation_id = CURRENT_SLIDE[1].presentation_id]]
    /\ UNCHANGED <<teleVars, TokenVars, SlideVars>>

\* notes_cache.retain(...): the keys of the presentation are dropped, and
\* prefetch_all_notes is called.
Refresh_Retain(t) ==
    /\ tasks[t].pc = "retain"
    /\ LET p == tasks[t].presentation_id
           kept == {k \in DOMAIN SLIDE_NOTES : ~starts_with(k, p)}
       IN  SLIDE_NOTES' = [k \in kept |-> SLIDE_NOTES[k]]
    /\ tasks' = [tasks EXCEPT ![t].pc = "prefetch"]
    /\ UNCHANGED <<teleVars, TokenVars, CURRENT_SLIDE, CURRENT_PRESENTATION_ID,
                   emitted>>

\* The prefetch_all_notes that refresh_notes awaits returns, in the same
\* way.
Refresh_Prefetched(t, keys) ==
    /\ tasks[t].op = "get_valid_slides_token"
    /\ tasks[t].pc = "done"
    /\ tasks[t].caller = "refresh_notes"
    /\ keys \in PrefetchedKeys(tasks[t].presentation_id)
    /\ keys # {} => tasks[t].result # None
    /\ SLIDE_NOTES' = CacheInsert(SLIDE_NOTES, keys)
    /\ tasks' = [tasks EXCEPT ![t] = Resume(@, "lookup")]
    /\ UNCHANGED <<teleVars, TokenVars, CURRENT_SLIDE, CURRENT_PRESENTATION_ID,
                   emitted>>

\* The notes of the slide are read from the cache for the event.
Refresh_Lookup(t) ==
    /\ tasks[t].op = "refresh_notes"
    /\ tasks[t].pc = "lookup"
    /\ LET sd == tasks[t].slide_data
           key == NotesKey(sd.presentation_id, sd.slide_id)
       IN  tasks' = [tasks EXCEPT
              ![t].pc = "emit",
              ![t].notes = IF key \in DOMAIN SLIDE_NOTES
                           THEN Some(SLIDE_NOTES[key]) ELSE None]
    /\ UNCHANGED <<teleVars, TokenVars, SlideVars>>

\* The answers of Google's token endpoint to the refreshes of these tasks:
\* an error, or a new access token that expires in DefaultExpiresIn seconds.
SlideTaskRefreshResponses ==
    {resp \in SlidesRefreshResponses :
        resp.ok => resp.refresh_token = None /\ resp.expires_in # None}

\* get_valid_slides_token as fetch_slide_notes and prefetch_all_notes call it.
SlideTaskToken(t) ==
    \/ get_valid_slides_token(t, "fetch")
    \/ get_valid_slides_token(t, "prefetch")
    \/ RefreshSlides_Read(t)
    \/ \E resp \in SlideTaskRefreshResponses : RefreshSlides_Response(t, resp)
    \/ RefreshSlides_Update(t)
    \/ RefreshSlides_Save(t)
    \/ GetSlides_Return(t)

\* /slides requests and their prefetches.
NextSlideRequests ==
    \/ \E t \in Tasks :
          \/ \E slide_data \in SlideDatas : slides_handler(t, slide_data)
          \/ Slides_SetPresentation(t)
          \/ Slides_ClearAndSpawn(t)
          \/ Slides_SetSlide(t)
          \/ Slides_Lookup(t)
          \/ \E found \in BOOLEAN : Slides_Fetched(t, found)
          \/ EmitSlideUpdate(t)
    \/ \E p \in Prefetchers, keys \in SUBSET AllSlideKeys : Prefetch_Finish(p, keys)
    \/ \E t \in SlideTasks : SlideTaskToken(t)

SpecSlideRequests == InitSlides /\ [][NextSlideRequests]_vars

\* The same with refresh_notes commands.
NextSlides ==
    \/ NextSlideRequests
    \/ \E t \in Tasks :
          \/ refresh_notes(t)
          \/ Refresh_Retain(t)
          \/ \E keys \in SUBSET AllSlideKeys : Refresh_Prefetched(t, keys)
          \/ Refresh_Lookup(t)

SpecSlides == InitSlides /\ [][NextSlides]_vars

\* No request, command or spawned task is under way.
AllFinished == \A t \in SlideTasks : tasks[t].pc = "idle"

\* C24: once all /slides requests, prefetches and refresh_notes calls have
\* finished, every key of SLIDE_NOTES has the prefix of the presentation in
\* CURRENT_PRESENTATION_ID.
C24_CacheHoldsCurrentPresentationOnly ==
    AllFinished =>
        \A k \in DOMAIN SLIDE_NOTES :
            /\ CURRENT_PRESENTATION_ID # None
            /\ starts_with(k, CURRENT_PRESENTATION_ID[1])

\* C25: once all /slides handlers have completed, the last slide-update
\* event describes the slide held in CURRENT_SLIDE.
C25_LastEventIsCurrentSlide ==
    (AllFinished /\ emitted # None) =>
        /\ CURRENT_SLIDE # None
        /\ emitted[1].slide_data = CURRENT_SLIDE[1]

----------------------------------------------------------------------------
(* cuecard-mobile: get_auth_status, the token refresh, logout and the     *)
(* OAuth callback                                                          *)
(*                                                                         *)
(* FIREBASE_TOKENS and store are here those of cuecard-mobile/lib.rs; the  *)
(* store is modelled by its key firebase_tokens.  tasks.req holds the      *)
(* commands and the handle_oauth_callback tasks under way;                 *)
(* tasks.logged_out records that a logout has returned Ok, and             *)
(* tasks.callback that a handle_oauth_callback was under way while a       *)
(* logout ran or has arrived since.  The OAuth credentials and the         *)
(* Firebase configuration are loaded.                                      *)

MobileIdle ==
    [op |-> "none", pc |-> "idle", tokens |-> None, after_logout |-> FALSE,
     result |-> FALSE]

\* t.expires_at > now + 300 && !t.id_token.is_empty()
StillValid(tk) == tk.expires_at > now + ExpiryMargin /\ tk.id_token # ""

\* The app starts with the store an earlier run left and nothing in memory.
InitMobile ==
    /\ TeleIdle
    /\ tasks = [req |-> [t \in Tasks |-> MobileIdle], logged_out |-> FALSE,
                callback |-> FALSE]
    /\ now = 0
    /\ FIREBASE_TOKENS = None
    /\ SLIDES_TOKENS = None
    /\ PENDING_OAUTH_SCOPE = None
    /\ store \in {[firebase_tokens |-> tk] : tk \in StoredFirebaseTokens}
    /\ CURRENT_SLIDE = <<>>
    /\ SLIDE_NOTES = <<>>
    /\ CURRENT_PRESENTATION_ID = <<>>
    /\ emitted = <<>>

\* What the mobile steps leave alone.
MobileRest == <<teleVars, now, SLIDES_TOKENS, PENDING_OAUTH_SCOPE, SlideVars>>

\* get_auth_status: "Check if we have valid tokens in memory".
get_auth_status(t) ==
    /\ tasks.req[t].pc = "idle"
    /\ tasks' = [tasks EXCEPT !.req[t] =
          IF FIREBASE_TOKENS # None /\ StillValid(FIREBASE_TOKENS[1])
          THEN [MobileIdle EXCEPT !.op = "get_auth_status", !.pc = "done",
                                  !.result = TRUE,
                                  !.after_logout = tasks.logged_out]
          ELSE [MobileIdle EXCEPT !.op = "get_auth_status", !.pc = "load",
                                  !.after_logout = tasks.logged_out]]
    /\ UNCHANGED <<MobileRest, FIREBASE_TOKENS, store>>

\* "Try to load from store": nothing saved, tokens that are still valid, or
\* expired ones, which are refreshed.
AuthStatus_Load(t) ==
    /\ tasks.req[t].pc = "load"
    /\ tasks' = [tasks EXCEPT !.req[t] =
          IF store.firebase_tokens = None
          THEN [@ EXCEPT !.pc = "done", !.result = FALSE]
          ELSE IF StillValid(store.firebase_tokens[1])
               THEN [@ EXCEPT !.pc = "restore", !.tokens = store.firebase_tokens]
               ELSE [@ EXCEPT !.pc = "refresh_load"]]
    /\ UNCHANGED <<MobileRest, FIREBASE_TOKENS, store>>

\* *FIREBASE_TOKENS.write() = Some(saved_tokens); return Ok(true)
AuthStatus_Restore(t) ==
    /\ tasks.req[t].pc = "restore"
    /\ FIREBASE_TOKENS' = tasks.req[t].tokens
    /\ tasks' = [tasks EXCEPT !.req[t].pc = "done", !.req[t].result = TRUE]
    /\ UNCHANGED <<MobileRest, store>>

\* refresh_firebase_token loads the tokens to refresh from the store.
MobileRefresh_Load(t) ==
    /\ tasks.req[t].pc = "refresh_load"
    /\ tasks' = [tasks EXCEPT !.req[t] =
          IF store.firebase_tokens = None
          THEN [@ EXCEPT !.pc = "done", !.result = FALSE]
          ELSE [@ EXCEPT !.pc = "http", !.tokens = store.firebase_tokens]]
    /\ UNCHANGED <<MobileRest, FIREBASE_TOKENS, store>>

\* The token endpoint answers: no id_token, or the new tokens.
MobileRefresh_Response(t, ok) ==
    /\ tasks.req[t].pc = "http"
    /\ tasks' = [tasks EXCEPT !.req[t] =
          IF ok
          THEN [@ EXCEPT !.pc = "save",
                         !.tokens = Some([id_token |-> "refreshed",
                                          expires_at |-> now + DefaultExpiresIn])]
          ELSE [@ EXCEPT !.pc = "done", !.result = FALSE]]
    /\ UNCHANGED <<MobileRest, FIREBASE_TOKENS, store>>

\* save_to_store(app, KEY_FIREBASE_TOKENS, &new_tokens)
MobileRefresh_Save(t) ==
    /\ tasks.req[t].pc = "save"
    /\ store' = [store EXCEPT !.firebase_tokens = tasks.req[t].tokens]
    /\ tasks' = [tasks EXCEPT !.req[t].pc = "set"]
    /\ UNCHANGED <<MobileRest, FIREBASE_TOKENS>>

\* *FIREBASE_TOKENS.write() = Some(new_tokens); the refresh and with it
\* get_auth_status return Ok.
MobileRefresh_Set(t) ==
    /\ tasks.req[t].pc = "set"
    /\ FIREBASE_TOKENS' = tasks.req[t].tokens
    /\ tasks' = [tasks EXCEPT !.req[t].pc = "done", !.req[t].result = TRUE]
    /\ UNCHANGED <<MobileRest, store>>

\* A task of that operation has not finished.
UnderWay(op) ==
    \E u \in Tasks : tasks.req[u].op = op /\ tasks.req[u].pc # "done"

\* logout: "Clear memory"
MobileLogout_ClearMemory(t) ==
    /\ tasks.req[t].pc = "idle"
    /\ FIREBASE_TOKENS' = None
    /\ tasks' = [tasks EXCEPT
          !.req[t] = [MobileIdle EXCEPT !.op = "logout", !.pc = "delete"],
          !.callback = @ \/ UnderWay("handle_oauth_callback")]
    /\ UNCHANGED <<MobileRest, store>>

\* logout: "Clear store", and Ok(()) is returned.
MobileLogout_ClearStore(t) ==
    /\ tasks.req[t].pc = "delete"
    /\ store' = [store EXCEPT !.firebase_tokens = None]
    /\ tasks' = [tasks EXCEPT !.req[t].pc = "done", !.req[t].result = TRUE,
                              !.logged_out = TRUE]
    /\ UNCHANGED <<MobileRest, FIREBASE_TOKENS>>

\* The deep-link listener spawns handle_oauth_callback for the code of a
\* cuecard://oauth/callback URL: the code is sent to Google's token endpoint.
handle_oauth_callback(t) ==
    /\ tasks.req[t].pc = "idle"
    /\ tasks' = [tasks EXCEPT
          !.req[t] = [MobileIdle EXCEPT !.op = "handle_oauth_callback",
                                        !.pc = "google"],
          !.callback = @ \/ tasks.logged_out \/ UnderWay("logout")]
    /\ UNCHANGED <<MobileRest, FIREBASE_TOKENS, store>>

\* Google answers: an error or no id_token, or the Google id_token, which is
\* sent to Firebase's signInWithIdp.
MobileCallback_Google(t, ok) ==
    /\ tasks.req[t].pc = "google"
    /\ tasks' = [tasks EXCEPT !.req[t] =
          IF ok THEN [@ EXCEPT !.pc = "firebase"]
          ELSE [@ EXCEPT !.pc = "done", !.result = FALSE]]
    /\ UNCHANGED <<MobileRest, FIREBASE_TOKENS, store>>

\* Firebase answers: an error or no idToken or refreshToken, or the tokens
\* of the login.
MobileCallback_Firebase(t, ok) ==
    /\ tasks.req[t].pc = "firebase"
    /\ tasks' = [tasks EXCEPT !.req[t] =
          IF ok
          THEN [@ EXCEPT !.pc = "callback_save",
                         !.tokens = Some([id_token |-> "login",
                                          expires_at |-> now + DefaultExpiresIn])]
          ELSE [@ EXCEPT !.pc = "done", !.result = FALSE]]
    /\ UNCHANGED <<MobileRest, FIREBASE_TOKENS, store>>

\* save_to_store(app, KEY_FIREBASE_TOKENS, &tokens)
MobileCallback_Save(t) ==
    /\ tasks.req[t].pc = "callback_save"
    /\ store' = [store EXCEPT !.firebase_tokens = tasks.req[t].tokens]
    /\ tasks' = [tasks EXCEPT !.req[t].pc = "callback_set"]
    /\ UNCHANGED <<MobileRest, FIREBASE_TOKENS>>

\* *FIREBASE_TOKENS.write() = Some(tokens)
MobileCallback_Set(t) ==
    /\ tasks.req[t].pc = "callback_set"
    /\ FIREBASE_TOKENS' = tasks.req[t].tokens
    /\ tasks' = [tasks EXCEPT !.req[t].pc = "callback_emit"]
    /\ UNCHANGED <<MobileRest, store>>

\* app.emit("auth-status", ..): the event is emitted and Ok is returned, or
\* the emit fails and with it the callback ("Failed to emit event").
MobileCallback_Emit(t, ok) ==
    /\ tasks.req[t].pc = "callback_emit"
    /\ emitted' = IF ok THEN Some([authenticated |-> TRUE]) ELSE emitted
    /\ tasks' = [tasks EXCEPT !.req[t].pc = "done", !.req[t].result = ok]
    /\ UNCHANGED <<teleVars, now, FIREBASE_TOKENS, SLIDES_TOKENS,
                   PENDING_OAUTH_SCOPE, store, CURRENT_SLIDE, SLIDE_NOTES,
                   CURRENT_PRESENTATION_ID>>

\* The command's result has been read by the frontend; a spawned task is
\* gone.
MobileReturn(t) ==
    /\ tasks.req[t].pc = "done"
    /\ tasks' = [tasks EXCEPT !.req[t] = MobileIdle]
    /\ UNCHANGED <<MobileRest, FIREBASE_TOKENS, store>>

NextMobile ==
    \/ Tick
    \/ \E t \in Tasks :
          \/ get_auth_status(t)
          \/ AuthStatus_Load(t)
          \/ AuthStatus_Restore(t)
          \/ MobileRefresh_Load(t)
          \/ \E ok \in BOOLEAN : MobileRefresh_Response(t, ok)
          \/ MobileRefresh_Save(t)
          \/ MobileRefresh_Set(t)
          \/ MobileLogout_ClearMemory(t)
          \/ MobileLogout_ClearStore(t)
          \/ handle_oauth_callback(t)
          \/ \E ok \in BOOLEAN : MobileCallback_Google(t, ok)
          \/ \E ok \in BOOLEAN : MobileCallback_Firebase(t, ok)
          \/ MobileCallback_Save(t)
          \/ MobileCallback_Set(t)
          \/ \E ok \in BOOLEAN : MobileCallback_Emit(t, ok)
          \/ MobileReturn(t)

SpecMobile == InitMobile /\ [][NextMobile]_vars

\* C26: once logout has returned Ok, and no OAuth callback was under way
\* while it ran or has arrived since, the tokens stay absent from memory and
\* from the store, and a get_auth_status called after it returns false.
C26_LogoutIsFinal ==
    (tasks.logged_out /\ ~tasks.callback) =>
        /\ FIREBASE_TOKENS = None
        /\ store.firebase_tokens = None
        /\ \A t \in Tasks :
              ( /\ tasks.req[t].op = "get_auth_status"
                /\ tasks.req[t].after_logout
                /\ tasks.req[t].pc = "done" )
              => ~tasks.req[t].result

=============================================================================
